---- MODULE Spec2Model ----
(***************************************************************************)
(* The syntactic analyzer of src/src/analyzer/syntax.rs (struct Syntax).   *)
(*                                                                         *)
(* The parser is a recursive-descent / Pratt parser over a token vector.   *)
(* Every method `fn f(&mut self, ..) -> Result<T, SyntaxError>` is an      *)
(* operator f(s, ..) from a parser state s to a parser state: the fields   *)
(* of Syntax (current, errors, type_params_table, match_cond,              *)
(* match_subject) plus the outcome of the call:                            *)
(*    st  = "ok"      the method returned Ok(val) (or a plain value val)   *)
(*    st  = "err"     the method returned Err(err)                         *)
(*    st  = "panic"   the method panicked (panic!, assert!, index out of   *)
(*                    range, unwrap of None); err.message is the message   *)
(*    st  = "diverge" the method never returns (a loop whose iteration     *)
(*                    leaves the whole parser state unchanged)             *)
(* The cursor `current` is 0-based as in the source; TokAt(i) is           *)
(* self.tokens[i].  The methods are mutually recursive; a method calls     *)
(* another as Call("method", s, <<args>>), and a long method is cut into   *)
(* the stages named after it (parser_fndef_name, parser_fndef_return, ..). *)
(*                                                                         *)
(* The driver loop of Syntax::parser is the state machine: one action per  *)
(* iteration of `while !self.is(TokenType::Eof)`.                          *)
(***************************************************************************)
EXTENDS Integers, Sequences, FiniteSets, TLC

VARIABLES
    tokens,             \* Syntax.tokens
    current,            \* Syntax.current
    errors,             \* Syntax.errors
    type_params_table,  \* Syntax.type_params_table (only its key set is used)
    match_cond,         \* Syntax.match_cond
    match_subject,      \* Syntax.match_subject
    stmt_list,          \* the local stmt_list of Syntax::parser
    result,             \* what the last parser() call returned: (stmt_list, errors.clone())
    pc,                 \* "idle" | "loop" | "done" | "panic" | "diverge"
    calls,              \* number of parser() calls made on this instance
    iterations,         \* driver iterations of the running parser() call
    iter_start,         \* value of current when the last driver iteration started
    panic_message       \* the message of the panic that ended parser(), "" when none

vars == <<tokens, current, errors, type_params_table, match_cond, match_subject,
          stmt_list, result, pc, calls, iterations, iter_start, panic_message>>

----------------------------------------------------------------------------
(* Bounds of the model *)

\* longest token stream (without the final Eof) of the exhaustive input family
MaxLen == 3

\* number of parser() calls made on one Syntax instance
MaxCalls == 2

\* driver iterations the model follows beyond |tokens| before it stops looking
MaxExtraIters == 1

----------------------------------------------------------------------------
(* Tokens (lexer::Token): kind, literal, start, end, line *)

Tk(ty, lit, ln) == [token_type |-> ty, literal |-> lit, line |-> ln]

\* The lexer gives every token its byte span; token i of the vector spans
\* [2i, 2i+1], so spans are ordered like the tokens.
Lex(protos) ==
    [i \in 1..Len(protos) |->
        [token_type |-> protos[i].token_type,
         literal    |-> protos[i].literal,
         line       |-> protos[i].line,
         start      |-> 2 * (i - 1),
         end        |-> 2 * (i - 1) + 1]]

TokAt(i) == tokens[i + 1]

Nil == [node |-> "None"]

NoErr == [start |-> 0, end |-> 0, message |-> "", arg |-> ""]

\* SyntaxError(start, end, message); arg is the value formatted into the message
SyntaxError(start, end, message, arg) ==
    [start |-> start, end |-> end, message |-> message, arg |-> arg]

\* AnalyzerError { start, end, message }
AnalyzerError(e) == e

----------------------------------------------------------------------------
(* Parser state and outcomes *)

SyntaxState(cur, errs, tpt, mc, ms) ==
    [current |-> cur, errors |-> errs, type_params_table |-> tpt,
     match_cond |-> mc, match_subject |-> ms,
     st |-> "ok", val |-> Nil, err |-> NoErr]

\* Ok(v)
Ret(s, v) == [s EXCEPT !.st = "ok", !.val = v, !.err = NoErr]

\* Err(SyntaxError(start, end, message))
Fail(s, start, end, message, arg) ==
    [s EXCEPT !.st = "err", !.val = Nil, !.err = SyntaxError(start, end, message, arg)]

\* panic!(message), a failed assert!, an index out of range, unwrap() of None
Abort(s, message) ==
    [s EXCEPT !.st = "panic", !.val = Nil, !.err = SyntaxError(0, 0, message, "")]

\* a loop that never exits
Diverge(s) ==
    [s EXCEPT !.st = "diverge", !.val = Nil, !.err = NoErr]

\* the `?` operator: r is the outcome of the call, x the rest of the method
Then(r, x) == IF r.st = "ok" THEN x ELSE r

InRange(s) == s.current < Len(tokens)

OobToken == [token_type |-> "<out of range>", literal |-> "", line |-> 0, start |-> 0, end |-> 0]

\* self.tokens[self.current] where the caller has established InRange(s)
Cur(s) == IF InRange(s) THEN TokAt(s.current) ELSE OobToken

\* every use of self.peek(): panics when current >= tokens.len(); x is the
\* continuation that reads Cur(s)
Peek(s, x) == IF InRange(s) THEN x ELSE Abort(s, "syntax::peek: current index out of range")

Step(s) == [s EXCEPT !.current = @ + 1]

\* self.method(args), defined after the methods
RECURSIVE Call(_, _, _)

advance(s) ==
    IF InRange(s) THEN Ret(Step(s), Cur(s))
    ELSE Abort(s, "index out of bounds")

\* self.prev(): Option<&Token>
prev(s) == IF s.current = 0 THEN OobToken ELSE TokAt(s.current - 1)

\* self.is(token_type), where the caller has established InRange(s) with Peek
is(s, token_type) == Cur(s).token_type = token_type

consume(s, token_type) ==
    Peek(s, IF is(s, token_type) THEN Ret(Step(s), TRUE) ELSE Ret(s, FALSE))

\* on a mismatch the token stays under the cursor
must_keep(s, expect) ==
    Peek(s,
        LET token == Cur(s)
            s1    == Step(s)
        IN  IF token.token_type # expect
            THEN Fail(s, token.start, token.end, "expected", expect)
            ELSE Ret(s1, token))

must(s, expect) ==
    Peek(s,
        LET token == Cur(s)
            s1    == Step(s)
        IN  IF token.token_type # expect
            THEN Fail(s1, token.start, token.end, "expected", expect)
            ELSE Ret(s1, token))

\* self.next(step).is_some()
has_next(s, step) == s.current + step < Len(tokens)

next_is(s, step, expect) ==
    IF has_next(s, step) THEN TokAt(s.current + step).token_type = expect ELSE FALSE

is_stmt_eof(s) == is(s, "StmtEof") \/ is(s, "Eof")

----------------------------------------------------------------------------
(* token_to_expr_op, token_to_type_kind *)

token_to_expr_op(token_type) ==
    CASE token_type = "Plus" -> "Add"
      [] token_type = "Minus" -> "Sub"
      [] token_type = "Star" -> "Mul"
      [] token_type = "Slash" -> "Div"
      [] token_type = "Percent" -> "Rem"
      [] token_type = "EqualEqual" -> "Ee"
      [] token_type = "NotEqual" -> "Ne"
      [] token_type = "GreaterEqual" -> "Ge"
      [] token_type = "RightAngle" -> "Gt"
      [] token_type = "LessEqual" -> "Le"
      [] token_type = "LessThan" -> "Lt"
      [] token_type = "AndAnd" -> "AndAnd"
      [] token_type = "OrOr" -> "OrOr"
      [] token_type = "Tilde" -> "Bnot"
      [] token_type = "And" -> "And"
      [] token_type = "Or" -> "Or"
      [] token_type = "Xor" -> "Xor"
      [] token_type = "LeftShift" -> "Lshift"
      [] token_type = "RightShift" -> "Rshift"
      [] token_type = "PercentEqual" -> "Rem"
      [] token_type = "MinusEqual" -> "Sub"
      [] token_type = "PlusEqual" -> "Add"
      [] token_type = "SlashEqual" -> "Div"
      [] token_type = "StarEqual" -> "Mul"
      [] token_type = "OrEqual" -> "Or"
      [] token_type = "AndEqual" -> "And"
      [] token_type = "XorEqual" -> "Xor"
      [] token_type = "LeftShiftEqual" -> "Lshift"
      [] token_type = "RightShiftEqual" -> "Rshift"
      [] OTHER -> "None"

token_to_type_kind(token_type) ==
    CASE token_type \in {"True", "False"} -> "Bool"
      [] token_type = "Null" -> "Null"
      [] token_type = "Void" -> "Void"
      [] token_type = "FloatLiteral" -> "Float"
      [] token_type = "IntLiteral" -> "Int"
      [] token_type = "StringLiteral" -> "String"
      [] token_type = "Bool" -> "Bool"
      [] token_type = "Float" -> "Float"
      [] token_type = "F32" -> "Float32"
      [] token_type = "F64" -> "Float64"
      [] token_type = "Int" -> "Int"
      [] token_type = "I8" -> "Int8"
      [] token_type = "I16" -> "Int16"
      [] token_type = "I32" -> "Int32"
      [] token_type = "I64" -> "Int64"
      [] token_type = "Uint" -> "Uint"
      [] token_type = "U8" -> "Uint8"
      [] token_type = "U16" -> "Uint16"
      [] token_type = "U32" -> "Uint32"
      [] token_type = "U64" -> "Uint64"
      [] token_type = "String" -> "String"
      [] token_type = "Var" -> "Unknown"
      [] OTHER -> "Unknown"

\* Token::is_complex_assign (lexer.rs): the compound assignment tokens, as
\* listed in token_to_expr_op under "equal 快捷运算拆解"
is_complex_assign(token_type) ==
    token_type \in {"PercentEqual", "MinusEqual", "PlusEqual", "SlashEqual", "StarEqual",
                    "OrEqual", "AndEqual", "XorEqual", "LeftShiftEqual", "RightShiftEqual"}

----------------------------------------------------------------------------
(* SyntaxPrecedence (repr(u8)) and the rule table find_rule *)

PrecNull == 0
PrecAssign == 1
PrecCatch == 2
PrecOrOr == 3
PrecAndAnd == 4
PrecOr == 5
PrecXor == 6
PrecAnd == 7
PrecCmpEqual == 8
PrecCompare == 9
PrecShift == 10
PrecTerm == 11
PrecFactor == 12
PrecTypeCast == 13
PrecUnary == 14
PrecCall == 15
PrecPrimary == 16

\* ParserRule { prefix, infix, infix_precedence }; "None" is Option::None
ParserRule(prefix, infix, infix_precedence) ==
    [prefix |-> prefix, infix |-> infix, infix_precedence |-> infix_precedence]

find_rule(token_type) ==
    CASE token_type = "LeftParen" -> ParserRule("parser_left_paren_expr", "parser_call_expr", PrecCall)
      [] token_type = "LeftSquare" -> ParserRule("parser_vec_new", "parser_access", PrecCall)
      [] token_type = "LeftCurly" -> ParserRule("parser_left_curly_expr", "None", PrecNull)
      [] token_type = "LessThan" -> ParserRule("None", "parser_binary", PrecCompare)
      [] token_type = "LeftAngle" -> ParserRule("None", "parser_type_args_expr", PrecCall)
      [] token_type = "MacroIdent" -> ParserRule("parser_macro_call", "None", PrecNull)
      [] token_type = "Dot" -> ParserRule("None", "parser_select", PrecCall)
      [] token_type = "Minus" -> ParserRule("parser_unary", "parser_binary", PrecTerm)
      [] token_type = "Plus" -> ParserRule("None", "parser_binary", PrecTerm)
      [] token_type = "Not" -> ParserRule("parser_unary", "None", PrecUnary)
      [] token_type = "Tilde" -> ParserRule("parser_unary", "None", PrecUnary)
      [] token_type = "And" -> ParserRule("parser_unary", "parser_binary", PrecAnd)
      [] token_type = "Or" -> ParserRule("None", "parser_binary", PrecOr)
      [] token_type = "Xor" -> ParserRule("None", "parser_binary", PrecXor)
      [] token_type = "LeftShift" -> ParserRule("None", "parser_binary", PrecShift)
      [] token_type = "Star" -> ParserRule("parser_unary", "parser_binary", PrecFactor)
      [] token_type = "Slash" -> ParserRule("None", "parser_binary", PrecFactor)
      [] token_type = "OrOr" -> ParserRule("None", "parser_binary", PrecOrOr)
      [] token_type = "AndAnd" -> ParserRule("None", "parser_binary", PrecAndAnd)
      [] token_type \in {"NotEqual", "EqualEqual"} -> ParserRule("None", "parser_binary", PrecCmpEqual)
      [] token_type = "RightShift" -> ParserRule("None", "parser_binary", PrecShift)
      [] token_type \in {"RightAngle", "GreaterEqual", "LessEqual"} ->
            ParserRule("None", "parser_binary", PrecCompare)
      [] token_type \in {"StringLiteral", "IntLiteral", "FloatLiteral", "True", "False", "Null"} ->
            ParserRule("parser_literal", "None", PrecNull)
      [] token_type = "As" -> ParserRule("None", "parser_as_expr", PrecTypeCast)
      [] token_type = "Is" -> ParserRule("parser_match_is_expr", "parser_is_expr", PrecTypeCast)
      [] token_type = "Catch" -> ParserRule("None", "parser_catch_expr", PrecCatch)
      [] token_type = "Ident" -> ParserRule("parser_ident_expr", "None", PrecNull)
      [] OTHER -> ParserRule("None", "None", PrecNull)

----------------------------------------------------------------------------
(* AST constructors *)

\* Stmt { start, end, node: AstNode::None } at the current token
stmt_new(s) == [start |-> Cur(s).start, end |-> Cur(s).end, node |-> "None"]

\* Expr { start, end, node: AstNode::None } at the current token
expr_new(s) == [start |-> Cur(s).start, end |-> Cur(s).end, node |-> "None"]

\* x.node = AstNode::<node>(fields)
WithNode(x, node, fields) == [start |-> x.start, end |-> x.end, node |-> node] @@ fields

fake_new(s, expr) == WithNode(stmt_new(s), "Fake", [expr |-> expr])

\* Type { kind, start, end, impl_ident, origin_ident }, with the payload of the kind
\* in elems (element / member types), and len, alias, is_any, params as the kind needs
Type(kind, start, end) ==
    [kind |-> kind, start |-> start, end |-> end, impl_ident |-> "", origin_ident |-> "",
     elems |-> <<>>]

\* Type::new(kind), Type::default(): no span
TypeOf(kind) == Type(kind, 0, 0)

must_stmt_end(s) ==
    Peek(s,
        IF is(s, "Eof") \/ is(s, "RightCurly") THEN Ret(s, Nil)
        ELSE IF is(s, "StmtEof") THEN Ret(Step(s), Nil)
        ELSE IF s.current = 0 THEN Abort(s, "called Option::unwrap() on a None value")
        ELSE Fail(s, prev(s).start, prev(s).end, "expected ';' or '}' at end of statement", ""))

BasicTypeTokens ==
    {"Var", "Null", "Void", "Int", "I8", "I16", "I32", "I64", "Uint", "U8", "U16", "U32",
     "U64", "Float", "F32", "F64", "Bool", "String"}

is_basic_type(s) == Cur(s).token_type \in BasicTypeTokens

SyncKeywords ==
    {"Fn", "Var", "Return", "If", "For", "Match", "Try", "Catch", "Continue", "Break",
     "Import", "Type"}

\* the loop without the brace level: a `{` does not raise it, a `}` always ends it
synchronize_loop_flat(s, current_brace_level, brace_level) ==
    Peek(s,
        LET token == Cur(s).token_type IN
        IF token = "Eof" THEN Ret(s, FALSE)
        ELSE IF token = "StmtEof" THEN Ret(Step(s), TRUE)
        ELSE IF token \in SyncKeywords \/ is_basic_type(s) THEN Ret(s, TRUE)
        ELSE IF token = "RightCurly" THEN Ret(s, FALSE)
        ELSE Call("synchronize_loop", Step(s), <<current_brace_level, brace_level>>))

\* the loop of synchronize; val is the bool it returns
synchronize_loop(s, current_brace_level, brace_level) ==
    Peek(s,
        LET token == Cur(s).token_type IN
        IF token = "Eof" THEN Ret(s, FALSE)
        ELSE IF token = "StmtEof" /\ brace_level = current_brace_level THEN Ret(Step(s), TRUE)
        ELSE IF brace_level = current_brace_level
                /\ (token \in SyncKeywords \/ is_basic_type(s)) THEN Ret(s, TRUE)
        ELSE IF token = "LeftCurly"
             THEN Call("synchronize_loop", Step(s), <<current_brace_level, brace_level + 1>>)
        ELSE IF token = "RightCurly"
             THEN IF brace_level - 1 < current_brace_level THEN Ret(s, FALSE)
                  ELSE Call("synchronize_loop", Step(s), <<current_brace_level, brace_level - 1>>)
        ELSE Call("synchronize_loop", Step(s), <<current_brace_level, brace_level>>))

synchronize(s, current_brace_level) ==
    Call("synchronize_loop", s, <<current_brace_level, current_brace_level>>)

----------------------------------------------------------------------------
(* The type parser *)


\* length_token.literal.parse::<u64>(): the value of an integer literal, -1 when
\* the literal is not a decimal u64
parse_u64(literal) ==
    CASE literal = "0" -> 0
      [] literal = "1" -> 1
      [] literal = "2" -> 2
      [] literal = "3" -> 3
      [] literal = "10" -> 10
      [] literal = "20" -> 20
      [] literal = "24" -> 24
      [] OTHER -> -1

\* t.end = self.prev().unwrap().end; return Ok(t)
TypeDone(s, t) == Ret(s, [t EXCEPT !.end = prev(s).end])

\* loop { push(parser_type()? or parser_single_type()?); if !consume(Comma) { break } }
parser_type_list(s, acc, single) ==
    LET r == IF single THEN Call("parser_single_type", s, <<>>) ELSE Call("parser_type", s, <<>>)
        c == Call("consume", r, <<"Comma">>)
    IN  Then(r, Then(c,
            IF c.val THEN Call("parser_type_list", c, <<Append(acc, r.val), single>>)
            ELSE Ret(c, Append(acc, r.val))))

\* the closing step also takes a second `>` that follows
parser_angle_type_greedy(s, t, kind) ==
    LET a == Call("must", Step(s), <<"LeftAngle">>)
        e == Call("parser_type", a, <<>>)
        z == Call("must", e, <<"RightAngle">>)
        z2 == Call("consume", z, <<"RightAngle">>)
    IN  Then(a, Then(e, Then(z, Then(z2,
            TypeDone(z2, [t EXCEPT !.kind = kind, !.elems = <<e.val>>])))))

\* kw<type>: ptr, vec, set, chan
parser_angle_type(s, t, kind) ==
    LET a == Call("must", Step(s), <<"LeftAngle">>)
        e == Call("parser_type", a, <<>>)
        z == Call("must", e, <<"RightAngle">>)
    IN  Then(a, Then(e, Then(z,
            TypeDone(z, [t EXCEPT !.kind = kind, !.elems = <<e.val>>]))))

\* the body of `while !self.is(RightCurly)` of a struct type
parser_struct_fields(s, properties) ==
    Peek(s,
        IF is(s, "RightCurly") THEN Ret(s, properties)
        ELSE
            LET ft == Call("parser_type", s, <<>>)
                fn == Call("advance", ft, <<>>)
                eq == Call("consume", fn, <<"Equal">>)
                dv == Call("parser_expr", eq, <<>>)
                \* after the optional default value
                af == IF eq.val THEN dv ELSE eq
                prop == [type_ |-> ft.val, key |-> fn.val.literal,
                         value |-> IF eq.val THEN dv.val ELSE Nil]
                se == Call("must_stmt_end", af, <<>>)
            IN  Then(ft, Then(fn, Then(eq,
                    IF eq.val /\ dv.st # "ok" THEN dv
                    ELSE IF eq.val /\ dv.val.node = "FnDef"
                    THEN Fail(dv, dv.val.start, dv.val.end,
                              "struct field default value cannot be a function definition", "")
                    ELSE Then(se, Call("parser_struct_fields", se, <<Append(properties, prop)>>))))))

parser_single_type(s) ==
    Peek(s,
        LET t  == Type("Unknown", Cur(s).start, 0)
            tt == Cur(s).token_type
            s1 == Step(s)
        IN
        IF tt = "Any" THEN TypeDone(s1, [t EXCEPT !.kind = "Union"] @@ [is_any |-> TRUE])
        ELSE IF is_basic_type(s) THEN
            LET kind == token_to_type_kind(tt) IN
            TypeDone(s1, [t EXCEPT !.kind = kind, !.impl_ident = kind,
                                   !.origin_ident = IF tt \in {"Int", "Uint", "Float"}
                                                    THEN Cur(s).literal ELSE ""])
        ELSE IF tt = "Ptr" THEN Call("parser_angle_type", s, <<t, "Ptr">>)
        ELSE IF tt = "LeftSquare" THEN
            LET e == Call("parser_type", s1, <<>>)
                z == Call("must", e, <<"RightSquare">>)
            IN  Then(e, Then(z, TypeDone(z, [t EXCEPT !.kind = "Vec", !.elems = <<e.val>>])))
        ELSE IF tt = "Vec" THEN Call("parser_angle_type", s, <<t, "Vec">>)
        ELSE IF tt = "Map" THEN
            LET a == Call("must", s1, <<"LeftAngle">>)
                k == Call("parser_type", a, <<>>)
                c == Call("must", k, <<"Comma">>)
                v == Call("parser_type", c, <<>>)
                z == Call("must", v, <<"RightAngle">>)
            IN  Then(a, Then(k, Then(c, Then(v, Then(z,
                    TypeDone(z, [t EXCEPT !.kind = "Map", !.elems = <<k.val, v.val>>]))))))
        ELSE IF tt = "Set" THEN Call("parser_angle_type", s, <<t, "Set">>)
        ELSE IF tt = "Tup" THEN
            LET a == Call("must", s1, <<"LeftAngle">>)
                l == Call("parser_type_list", a, <<<<>>, FALSE>>)
                z == Call("must", l, <<"RightAngle">>)
            IN  Then(a, Then(l, Then(z,
                    TypeDone(z, [t EXCEPT !.kind = "Tuple", !.elems = l.val]))))
        ELSE IF tt = "Chan" THEN Call("parser_angle_type", s, <<t, "Chan">>)
        ELSE IF tt = "Arr" THEN
            LET a == Call("must", s1, <<"LeftAngle">>)
                e == Call("parser_type", a, <<>>)
                c == Call("must", e, <<"Comma">>)
                n == Call("must", c, <<"IntLiteral">>)
                length == parse_u64(n.val.literal)
                z == Call("must", n, <<"RightAngle">>)
            IN  Then(a, Then(e, Then(c, Then(n,
                    IF length < 0
                    THEN Fail(n, n.val.start, n.val.end, "array length must be a valid integer", "")
                    ELSE IF length = 0
                    THEN Fail(n, n.val.start, n.val.end, "array length must be greater than 0", "")
                    ELSE Then(z, TypeDone(z, [t EXCEPT !.kind = "Arr", !.elems = <<e.val>>]
                                             @@ [len |-> length]))))))
        ELSE IF tt = "LeftParen" THEN
            LET l == Call("parser_type_list", s1, <<<<>>, FALSE>>)
                z == Call("must", l, <<"RightParen">>)
            IN  Then(l, Then(z, TypeDone(z, [t EXCEPT !.kind = "Tuple", !.elems = l.val])))
        ELSE IF tt = "LeftCurly" THEN
            LET k == Call("parser_type", s1, <<>>)
                c == Call("consume", k, <<"Colon">>)
                v == Call("parser_type", c, <<>>)
                zm == Call("must", v, <<"RightCurly">>)
                zs == Call("must", c, <<"RightCurly">>)
            IN  Then(k, Then(c,
                    IF c.val
                    THEN Then(v, Then(zm,
                            TypeDone(zm, [t EXCEPT !.kind = "Map", !.elems = <<k.val, v.val>>])))
                    ELSE Then(zs, TypeDone(zs, [t EXCEPT !.kind = "Set", !.elems = <<k.val>>]))))
        ELSE IF tt = "Struct" THEN
            LET a == Call("must", s1, <<"LeftCurly">>)
                f == Call("parser_struct_fields", a, <<<<>>>>)
                z == Call("must", f, <<"RightCurly">>)
            IN  Then(a, Then(f, Then(z,
                    TypeDone(z, [t EXCEPT !.kind = "Struct"] @@ [properties |-> f.val]))))
        ELSE IF tt = "Fn" THEN
            LET a  == Call("must", s1, <<"LeftParen">>)
                e  == Call("consume", a, <<"RightParen">>)
                l  == Call("parser_type_list", e, <<<<>>, FALSE>>)
                z  == Call("must", l, <<"RightParen">>)
                \* after the parameter types
                p  == IF e.val THEN Ret(e, <<>>) ELSE Then(l, Then(z, Ret(z, l.val)))
                c  == Call("consume", p, <<"Colon">>)
                rt == Call("parser_type", c, <<>>)
                d  == IF c.val THEN rt ELSE Ret(c, TypeOf("Void"))
            IN  Then(a, Then(e, Then(p, Then(c, Then(d,
                    TypeDone(d, [t EXCEPT !.kind = "Fn", !.elems = p.val]
                                @@ [return_type |-> d.val]))))))
        ELSE IF tt = "Ident" THEN
            LET first == Cur(s) IN
            IF s.type_params_table # {} /\ first.literal \in s.type_params_table
            THEN Ret(s1, [t EXCEPT !.kind = "Param", !.origin_ident = first.literal]
                         @@ [name |-> first.literal])
            ELSE
                LET dot    == Call("consume", s1, <<"Dot">>)
                    second == Call("advance", dot, <<>>)
                    \* after the optional `.ident`
                    q      == IF dot.val THEN second ELSE dot
                    alias  == [ident     |-> IF dot.val THEN second.val.literal ELSE first.literal,
                               import_as |-> IF dot.val THEN first.literal ELSE "None"]
                    la     == Call("consume", q, <<"LeftAngle">>)
                    args   == Call("parser_type_list", la, <<<<>>, TRUE>>)
                    z      == Call("must", args, <<"RightAngle">>)
                    tk     == [t EXCEPT !.kind = "Alias", !.origin_ident = alias.ident]
                IN  Then(dot, Then(q, Then(la,
                        IF la.val
                        THEN Then(args, Then(z,
                                TypeDone(z, tk @@ [alias |-> alias @@ [args |-> args.val,
                                                                       has_args |-> TRUE]])))
                        ELSE TypeDone(la, tk @@ [alias |-> alias @@ [args |-> <<>>,
                                                                     has_args |-> FALSE]]))))
        ELSE Fail(s, Cur(s).start, Cur(s).end, "Type definition exception", ""))

\* the member types are collected in reverse order
parser_union_loop_reversed(s, elements) ==
    LET r == Call("parser_single_type", s, <<>>)
        c == Call("consume", r, <<"Or">>)
    IN  Then(r, Then(c,
            IF c.val THEN Call("parser_union_loop", c, <<<<r.val>> \o elements>>)
            ELSE Ret(c, <<r.val>> \o elements)))

\* loop { push(parser_single_type()?); if !consume(Or) { break } } of a union
parser_union_loop(s, elements) ==
    LET r == Call("parser_single_type", s, <<>>)
        c == Call("consume", r, <<"Or">>)
    IN  Then(r, Then(c,
            IF c.val THEN Call("parser_union_loop", c, <<Append(elements, r.val)>>)
            ELSE Ret(c, Append(elements, r.val))))

parser_type(s) ==
    LET r == Call("parser_single_type", s, <<>>) IN
    Then(r, Peek(r,
        IF ~is(r, "Or") /\ ~is(r, "Question") THEN r
        ELSE
            LET union_t == Type("Union", Cur(r).start, 0) @@ [is_any |-> FALSE]
                o == Call("must", r, <<"Or">>)
                l == Call("parser_union_loop", o, <<<<r.val>>>>)
            IN  IF is(r, "Question")
                THEN TypeDone(Step(r), [union_t EXCEPT !.elems = <<r.val, TypeOf("Null")>>])
                ELSE Then(o, Then(l, TypeDone(l, [union_t EXCEPT !.elems = l.val])))))

----------------------------------------------------------------------------
(* The expression parser *)


\* self.current = current_pos; return v
Restore(s, current_pos, v) == Ret([s EXCEPT !.current = current_pos], v)

\* loop { if let Err(_) = parser_type() { restore; return false } if !consume(Comma) { break } }
type_args_loop(s, current_pos) ==
    LET r == Call("parser_type", s, <<>>)
        c == Call("consume", r, <<"Comma">>)
    IN  IF r.st = "err" THEN Restore(r, current_pos, FALSE)
        ELSE Then(r, Then(c,
                IF c.val THEN Call("type_args_loop", c, <<current_pos>>)
                ELSE Peek(c,
                    IF ~is(c, "RightAngle") THEN Restore(c, current_pos, FALSE)
                    ELSE IF ~next_is(c, 1, "LeftCurly") /\ ~next_is(c, 1, "LeftParen")
                         THEN Restore(c, current_pos, FALSE)
                    ELSE Restore(c, current_pos, TRUE))))

\* val: whether the `<` at the cursor opens generic arguments
parser_left_angle_is_type_args(s, left) ==
    LET current_pos == s.current
        left_ok == \/ left.node = "Ident"
                   \/ left.node = "Select" /\ left.left.node = "Ident"
        a == Call("advance", s, <<>>)
        r == Call("parser_type", a, <<>>)
        c == Call("consume", r, <<"Comma">>)
    IN  IF ~left_ok THEN Ret(s, FALSE)
        ELSE Then(a,
            IF r.st = "err" THEN Restore(r, current_pos, FALSE)
            ELSE Then(r, Peek(r,
                IF is(r, "RightAngle") THEN Restore(r, current_pos, TRUE)
                ELSE Then(c,
                    IF c.val THEN Call("type_args_loop", c, <<current_pos>>)
                    ELSE Restore(c, current_pos, FALSE)))))

\* val: the effective infix token kind
parser_infix_token(s, expr) ==
    Peek(s,
        LET la == Call("parser_left_angle_is_type_args", s, <<expr>>)
            \* after the `<` disambiguation
            s1 == IF is(s, "LeftAngle") THEN la ELSE s
            t1 == IF is(s, "LeftAngle") /\ ~la.val THEN "LessThan" ELSE Cur(s).token_type
        IN  Then(s1,
                IF t1 = "RightAngle" /\ next_is(s1, 1, "RightAngle")
                THEN LET a == Call("advance", s1, <<>>) IN Then(a, Ret(a, "RightShift"))
                ELSE Ret(s1, t1)))

\* SyntaxPrecedence::next(): -1 is None
prec_next(precedence) == IF precedence + 1 <= PrecPrimary THEN precedence + 1 ELSE -1

\* the infix part of parser_precedence_expr: s.val is the effective infix token
parser_precedence_loop(s, expr, token_type, precedence, exclude) ==
    LET infix_rule == Call("find_rule", token_type, <<>>)
        r == Call("CallInfix", infix_rule.infix, <<s, expr>>)
        t == Call("parser_infix_token", r, <<r.val>>)
    IN  IF exclude # "Eof" /\ token_type = exclude THEN Ret(s, expr)
        ELSE IF ~(infix_rule.infix_precedence >= precedence) THEN Ret(s, expr)
        ELSE IF infix_rule.infix = "None" THEN Abort(s, "invalid infix expression")
        ELSE Then(r, Then(t, Call("parser_precedence_loop", t, <<r.val, t.val, precedence, exclude>>)))

parser_precedence_expr(s, precedence, exclude) ==
    Peek(s,
        LET rule == Call("find_rule", Cur(s).token_type, <<>>)
            r == Call("CallPrefix", rule.prefix, <<s>>)
            t == Call("parser_infix_token", r, <<r.val>>)
        IN  IF rule.prefix = "None"
            THEN Fail(s, Cur(s).start, Cur(s).end, "<expr> expected, found", Cur(s).literal)
            ELSE Then(r, Then(t, Call("parser_precedence_loop", t, <<r.val, t.val, precedence, exclude>>))))

parser_expr_with_precedence(s) == Call("parser_precedence_expr", s, <<PrecAssign, "Unknown">>)

parser_binary(s, left) ==
    Peek(s,
        LET expr == expr_new(s)
            operator_token == Cur(s)
            precedence == Call("find_rule", operator_token.token_type, <<>>).infix_precedence
            right == Call("parser_precedence_expr", Step(s), <<prec_next(precedence), "Unknown">>)
        IN  IF prec_next(precedence) < 0
            THEN Abort(Step(s), "called Option::unwrap() on a None value")
            ELSE Then(right,
                    Ret(right, WithNode(expr, "Binary",
                        [op |-> token_to_expr_op(operator_token.token_type),
                         left |-> left, right |-> right.val]))))

\* expr_to_type_alias: the spans are those of the current token
expr_to_type_alias(s, left_expr, generics_args) ==
    LET t == Type("Alias", Cur(s).start, Cur(s).end) IN
    IF left_expr.node = "Ident"
    THEN Ret(s, [t EXCEPT !.origin_ident = left_expr.ident]
                @@ [alias |-> [ident |-> left_expr.ident, import_as |-> "None",
                               args |-> generics_args, has_args |-> TRUE]])
    ELSE IF left_expr.node = "Select" /\ left_expr.left.node = "Ident"
    THEN Ret(s, [t EXCEPT !.origin_ident = left_expr.key]
                @@ [alias |-> [ident |-> left_expr.key, import_as |-> left_expr.left.ident,
                               args |-> generics_args, has_args |-> TRUE]])
    ELSE Abort(s, "struct new left type exception")

parser_call_with(s, expr, left, generics_args) ==
    LET a == Call("parser_args", s, <<>>) IN
    Then(a, Ret(a, WithNode(expr, "Call",
        [left |-> left, generics_args |-> generics_args,
         args |-> a.val.args, spread |-> a.val.spread])))

parser_type_args_expr(s, left) ==
    Peek(s,
        IF ~is(s, "LeftAngle") THEN Abort(s, "assertion failed: self.is(TokenType::LeftAngle)")
        ELSE
            LET expr == expr_new(s)
                l == Call("parser_type_list", Step(s), <<<<>>, FALSE>>)
                z == Call("must", l, <<"RightAngle">>)
                ta == Call("expr_to_type_alias", z, <<left, l.val>>)
            IN  Then(l, Then(z, Peek(z,
                    IF is(z, "LeftParen") THEN Call("parser_call_with", z, <<expr, left, l.val>>)
                    ELSE IF ~is(z, "LeftCurly")
                    THEN Abort(z, "assertion failed: self.is(TokenType::LeftCurly)")
                    ELSE Then(ta, Call("parser_struct_new", ta, <<ta.val>>))))))

\* loop { key = must(Ident)?; must(Equal)?; value = parser_expr()?; if !consume(Comma) { break } }
parser_struct_new_loop(s, properties) ==
    LET k == Call("must", s, <<"Ident">>)
        e == Call("must", k, <<"Equal">>)
        v == Call("parser_expr", e, <<>>)
        c == Call("consume", v, <<"Comma">>)
        props == Append(properties, [key |-> k.val.literal, value |-> v.val])
    IN  Then(k, Then(e, Then(v, Then(c,
            IF c.val THEN Call("parser_struct_new_loop", c, <<props>>) ELSE Ret(c, props)))))

parser_struct_new(s, type_) ==
    Peek(s,
        LET expr == expr_new(s)
            a == Call("must", s, <<"LeftCurly">>)
            e == Call("consume", a, <<"RightCurly">>)
            l == Call("parser_struct_new_loop", e, <<<<>>>>)
            se == Call("consume", l, <<"StmtEof">>)
            z == Call("must", se, <<"RightCurly">>)
        IN  Then(a, Then(e,
                IF e.val THEN Ret(e, WithNode(expr, "StructNew", [type_ |-> type_, properties |-> <<>>]))
                ELSE Then(l, Then(se, Then(z,
                        Ret(z, WithNode(expr, "StructNew", [type_ |-> type_, properties |-> l.val]))))))))

Literal(expr, kind, literal, neg) ==
    WithNode(expr, "Literal", [kind |-> kind, literal |-> literal, neg |-> neg])

parser_unary(s) ==
    Peek(s,
        LET expr == expr_new(s)
            operator_token == Cur(s)
            tt == operator_token.token_type
            s1 == Step(s)
            operator == CASE tt = "Not" -> "Not"
                          [] tt = "Minus" -> "Neg"
                          [] tt = "Tilde" -> "Bnot"
                          [] tt = "And" -> "La"
                          [] tt = "Star" -> "Ia"
                          [] OTHER -> "None"
            operand == Call("parser_precedence_expr", s1, <<PrecUnary, "Unknown">>)
        IN  IF tt = "Minus" /\ ~InRange(s1) THEN Peek(s1, s1)
            ELSE IF tt = "Minus" /\ is(s1, "IntLiteral")
            THEN Ret(Step(s1), Literal(expr, "Int", Cur(s1).literal, TRUE))
            ELSE IF tt = "Minus" /\ is(s1, "FloatLiteral")
            THEN Ret(Step(s1), Literal(expr, "Float", Cur(s1).literal, TRUE))
            ELSE IF operator = "None"
            THEN Fail(s1, operator_token.start, operator_token.end,
                      "unknown unary operator", operator_token.literal)
            ELSE Then(operand,
                    Ret(operand, WithNode(expr, "Unary", [op |-> operator, operand |-> operand.val]))))

VarDeclExpr(type_, ident_token) ==
    [type_ |-> type_, ident |-> ident_token.literal,
     symbol_start |-> ident_token.start, symbol_end |-> ident_token.end]

parser_catch_expr(s, left) ==
    Peek(s,
        LET expr == expr_new(s)
            c == Call("must", s, <<"Catch">>)
            i == Call("must", c, <<"Ident">>)
            b == Call("parser_body", i, <<>>)
        IN  Then(c, Then(i, Then(b,
                Ret(b, WithNode(expr, "Catch",
                    [try_expr |-> left, catch_err |-> VarDeclExpr(TypeOf("Unknown"), i.val),
                     catch_body |-> b.val]))))))

parser_as_expr(s, left) ==
    Peek(s,
        LET expr == expr_new(s)
            a == Call("must", s, <<"As">>)
            t == Call("parser_single_type", a, <<>>)
        IN  Then(a, Then(t, Ret(t, WithNode(expr, "As", [target_type |-> t.val, src |-> left])))))

parser_match_is_expr(s) ==
    Peek(s,
        LET expr == expr_new(s)
            a == Call("must", s, <<"Is">>)
            t == Call("parser_single_type", a, <<>>)
        IN  Then(a,
                IF ~a.match_cond
                THEN Peek(a, Fail(a, Cur(a).start, Cur(a).end,
                                  "is type must be specified in the match expression", ""))
                ELSE Then(t, Ret(t, WithNode(expr, "MatchIs", [target_type |-> t.val])))))

parser_is_expr(s, left) ==
    Peek(s,
        LET expr == expr_new(s)
            a == Call("must", s, <<"Is">>)
            t == Call("parser_single_type", a, <<>>)
        IN  Then(a, Then(t, Ret(t, WithNode(expr, "Is", [target_type |-> t.val, src |-> left])))))

\* loop { push(parser_expr()?); if !consume(Comma) { break } }
parser_expr_list(s, elements) ==
    LET e == Call("parser_expr", s, <<>>)
        c == Call("consume", e, <<"Comma">>)
    IN  Then(e, Then(c,
            IF c.val THEN Call("parser_expr_list", c, <<Append(elements, e.val)>>)
            ELSE Ret(c, Append(elements, e.val))))

parser_left_paren_expr(s) ==
    LET a == Call("must", s, <<"LeftParen">>)
        e == Call("parser_expr", a, <<>>)
        rp == Call("consume", e, <<"RightParen">>)
        cm == Call("must", rp, <<"Comma">>)
        l == Call("parser_expr_list", cm, <<<<e.val>>>>)
        z == Call("must", l, <<"RightParen">>)
    IN  Then(a, Then(e, Then(rp,
            IF rp.val THEN Ret(rp, e.val)
            ELSE Then(cm, Then(l, Then(z, Peek(z,
                    Ret(z, WithNode(expr_new(z), "TupleNew", [elements |-> l.val])))))))))

parser_literal(s) ==
    Peek(s,
        LET expr == expr_new(s)
            literal_token == Cur(s)
        IN  Ret(Step(s), Literal(expr, token_to_type_kind(literal_token.token_type),
                                 literal_token.literal, FALSE)))

parser_ident_expr(s) ==
    Peek(s,
        LET expr == expr_new(s)
            i == Call("must", s, <<"Ident">>)
        IN  Then(i, Ret(i, WithNode(expr, "Ident", [ident |-> i.val.literal]))))

parser_access(s, left) ==
    Peek(s,
        LET expr == expr_new(s)
            a == Call("must", s, <<"LeftSquare">>)
            k == Call("parser_expr", a, <<>>)
            z == Call("must", k, <<"RightSquare">>)
        IN  Then(a, Then(k, Then(z,
                Ret(z, WithNode(expr, "Access", [left |-> left, key |-> k.val]))))))

parser_select(s, left) ==
    Peek(s,
        LET expr == expr_new(s)
            d == Call("must", s, <<"Dot">>)
            p == Call("must", d, <<"Ident">>)
        IN  Then(d, Then(p,
                Ret(p, WithNode(expr, "Select", [left |-> left, key |-> p.val.literal])))))

\* '...' is accepted in any position
parser_args_loop_unchecked(s, args, spread) ==
    LET el == Call("consume", s, <<"Ellipsis">>)
        sp == spread \/ el.val
        e == Call("parser_expr", el, <<>>)
        c == Call("consume", e, <<"Comma">>)
        as == Append(args, e.val)
    IN  Then(el, Then(e, Then(c,
            IF c.val THEN Call("parser_args_loop", c, <<as, sp>>)
            ELSE Ret(c, [args |-> as, spread |-> sp]))))

\* the loop of parser_args; spread is call.spread
parser_args_loop(s, args, spread) ==
    LET el == Call("consume", s, <<"Ellipsis">>)
        sp == spread \/ el.val
        e == Call("parser_expr", el, <<>>)
        c == Call("consume", e, <<"Comma">>)
        as == Append(args, e.val)
    IN  Then(el, Then(e, Peek(e,
            IF sp /\ ~is(e, "RightParen")
            THEN Fail(e, Cur(e).start, Cur(e).end,
                      "can only use '...' as the final argument in the list", "")
            ELSE Then(c,
                    IF c.val THEN Call("parser_args_loop", c, <<as, sp>>)
                    ELSE Ret(c, [args |-> as, spread |-> sp])))))

\* val: [args, spread], the argument list and the value left in call.spread
parser_args(s) ==
    LET a == Call("must", s, <<"LeftParen">>)
        e == Call("consume", a, <<"RightParen">>)
        l == Call("parser_args_loop", e, <<<<>>, FALSE>>)
        z == Call("must", l, <<"RightParen">>)
    IN  Then(a, Then(e,
            IF e.val THEN Ret(e, [args |-> <<>>, spread |-> FALSE])
            ELSE Then(l, Then(z, Ret(z, l.val)))))

parser_call_expr(s, left) ==
    Peek(s, Call("parser_call_with", s, <<expr_new(s), left, <<>>>>))

parser_vec_new(s) ==
    Peek(s,
        LET expr == expr_new(s)
            a == Call("must", s, <<"LeftSquare">>)
            e == Call("consume", a, <<"RightSquare">>)
            l == Call("parser_expr_list", e, <<<<>>>>)
            z == Call("must", l, <<"RightSquare">>)
        IN  Then(a, Then(e,
                IF e.val THEN Ret(e, WithNode(expr, "VecNew", [elements |-> <<>>]))
                ELSE Then(l, Then(z, Ret(z, WithNode(expr, "VecNew", [elements |-> l.val])))))))

\* while consume(Comma) { key = parser_expr()?; must(Colon)?; value = parser_expr()?; push }
parser_map_loop(s, elements) ==
    LET c == Call("consume", s, <<"Comma">>)
        k == Call("parser_expr", c, <<>>)
        o == Call("must", k, <<"Colon">>)
        v == Call("parser_expr", o, <<>>)
    IN  Then(c,
            IF ~c.val THEN Ret(c, elements)
            ELSE Then(k, Then(o, Then(v,
                    Call("parser_map_loop", v, <<Append(elements, [key |-> k.val, value |-> v.val])>>)))))

\* while consume(Comma) { push(parser_expr()?) }
parser_set_loop(s, elements) ==
    LET c == Call("consume", s, <<"Comma">>)
        e == Call("parser_expr", c, <<>>)
    IN  Then(c,
            IF ~c.val THEN Ret(c, elements)
            ELSE Then(e, Call("parser_set_loop", e, <<Append(elements, e.val)>>)))

parser_left_curly_expr(s) ==
    Peek(s,
        LET expr == expr_new(s)
            a == Call("must", s, <<"LeftCurly">>)
            e == Call("consume", a, <<"RightCurly">>)
            k == Call("parser_expr", e, <<>>)
            o == Call("consume", k, <<"Colon">>)
            v == Call("parser_expr", o, <<>>)
            ml == Call("parser_map_loop", v, <<<<[key |-> k.val, value |-> v.val]>>>>)
            se == Call("consume", ml, <<"StmtEof">>)
            mz == Call("must", se, <<"RightCurly">>)
            sl == Call("parser_set_loop", o, <<<<k.val>>>>)
            sz == Call("must", sl, <<"RightCurly">>)
        IN  Then(a, Then(e,
                IF e.val THEN Ret(e, WithNode(expr, "EmptyCurlyNew", [elements |-> <<>>]))
                ELSE Then(k, Then(o,
                    IF o.val
                    THEN Then(v, Then(ml, Then(se, Then(mz,
                            Ret(mz, WithNode(expr, "MapNew", [elements |-> ml.val]))))))
                    ELSE Then(sl, Then(sz,
                            Ret(sz, WithNode(expr, "SetNew", [elements |-> sl.val])))))))))

\* AstFnDef::default()
AstFnDef ==
    [symbol_name |-> "", fn_name |-> "None", params |-> <<>>, rest_param |-> FALSE,
     return_type |-> TypeOf("Unknown"), body |-> <<>>, generics_params |-> <<>>,
     has_generics_params |-> FALSE, impl_type |-> TypeOf("Unknown"), is_tpl |-> FALSE,
     is_co_async |-> FALSE, linkid |-> "None", is_private |-> FALSE, start |-> 0, end |-> 0]

parser_var_decl(s) ==
    LET t == Call("parser_type", s, <<>>)
        i == Call("must", t, <<"Ident">>)
    IN  Then(t, Then(i, Ret(i, VarDeclExpr(t.val, i.val))))

\* the loop of parser_params; rest is fn_decl.rest_param
parser_params_loop(s, params, rest) ==
    LET el == Call("consume", s, <<"Ellipsis">>)
        rp == rest \/ el.val
        p == Call("parser_var_decl", el, <<>>)
        c == Call("consume", p, <<"Comma">>)
        ps == Append(params, p.val)
    IN  Then(el, Then(p, Peek(p,
            IF rp /\ ~is(p, "RightParen")
            THEN Fail(p, Cur(p).start, Cur(p).end,
                      "can only use '...' as the final argument in the list", "")
            ELSE Then(c,
                    IF c.val THEN Call("parser_params_loop", c, <<ps, rp>>)
                    ELSE Ret(c, [params |-> ps, rest_param |-> rp])))))

\* val: fn_decl with params and rest_param filled
parser_params(s, fn_decl) ==
    LET a == Call("must", s, <<"LeftParen">>)
        e == Call("consume", a, <<"RightParen">>)
        l == Call("parser_params_loop", e, <<fn_decl.params, fn_decl.rest_param>>)
        z == Call("must", l, <<"RightParen">>)
    IN  Then(a, Then(e,
            IF e.val THEN Ret(e, fn_decl)
            ELSE Then(l, Then(z,
                    Ret(z, [fn_decl EXCEPT !.params = l.val.params,
                                           !.rest_param = l.val.rest_param])))))

\* parser_fndef_expr from the return type on: s is the state after parser_params,
\* s.val the fndef with its params
parser_fndef_expr_return(s, expr) ==
    LET c == Call("consume", s, <<"Colon">>)
        rt == Call("parser_type", c, <<>>)
        \* after the optional return type
        d == IF c.val THEN rt ELSE Ret(c, TypeOf("Void"))
        b == Call("parser_body", d, <<>>)
        fn_expr == WithNode(expr, "FnDef",
                      [fndef |-> [s.val EXCEPT !.return_type = d.val, !.body = b.val]])
        a == Call("parser_args", b, <<>>)
    IN  Then(c, Then(d, Then(b, Peek(b,
            IF is(b, "LeftParen")
            THEN Then(a, Peek(a, Ret(a, WithNode(expr_new(a), "Call",
                    [left |-> fn_expr, generics_args |-> <<>>,
                     args |-> a.val.args, spread |-> a.val.spread]))))
            ELSE Ret(b, fn_expr)))))

parser_fndef_expr(s) ==
    Peek(s,
        LET f == Call("must", s, <<"Fn">>)
            named == is(f, "Ident")
            \* after the optional name
            n == IF named THEN Step(f) ELSE f
            fndef0 == [AstFnDef EXCEPT !.start = Cur(s).start, !.end = Cur(s).end,
                                       !.symbol_name = IF named THEN Cur(f).literal ELSE "",
                                       !.fn_name = IF named THEN Cur(f).literal ELSE "None"]
            p == Call("parser_params", n, <<fndef0>>)
        IN  Then(f, Peek(f, Then(p, Call("parser_fndef_expr_return", p, <<expr_new(s)>>)))))

parser_new_expr(s) ==
    Peek(s,
        LET expr == expr_new(s)
            n == Call("must", s, <<"New">>)
            t == Call("parser_type", n, <<>>)
        IN  Then(n, Then(t, Ret(t, WithNode(expr, "New", [type_ |-> t.val, properties |-> <<>>])))))

\* is_struct_param_new_prefix: the scan `while pos < self.tokens.len()`
struct_param_scan(pos, close) ==
    IF ~(pos < Len(tokens)) THEN [close |-> close, pos |-> pos, eof |-> FALSE, oob |-> FALSE]
    ELSE IF ~(pos + 1 < Len(tokens)) THEN [close |-> close, pos |-> pos + 1, eof |-> FALSE, oob |-> TRUE]
    ELSE
        LET tt == TokAt(pos + 1).token_type
            c1 == IF tt = "LeftAngle" THEN close + 1
                  ELSE IF tt = "RightAngle" THEN close - 1 ELSE close
        IN  IF tt = "RightAngle" /\ c1 = 0 THEN [close |-> c1, pos |-> pos + 1, eof |-> FALSE, oob |-> FALSE]
            ELSE IF tt = "Eof" THEN [close |-> c1, pos |-> pos + 1, eof |-> TRUE, oob |-> FALSE]
            ELSE Call("struct_param_scan", pos + 1, <<c1>>)

\* "true" | "false" | "panic" (tokens[pos] out of range)
is_struct_param_new_prefix(cur) ==
    LET sc == Call("struct_param_scan", cur, <<1>>) IN
    IF ~(cur < Len(tokens)) THEN "panic"
    ELSE IF TokAt(cur).token_type # "LeftAngle" THEN "false"
    ELSE IF sc.oob THEN "panic"
    ELSE IF sc.eof THEN "false"
    ELSE IF sc.close > 0 THEN "false"
    ELSE IF sc.pos + 1 >= Len(tokens) THEN "false"
    ELSE IF TokAt(sc.pos + 1).token_type = "LeftCurly" THEN "true" ELSE "false"

\* "true" | "false" | "panic"; the caller has established InRange(s)
parser_is_struct_new_expr(s) ==
    LET p1 == Call("is_struct_param_new_prefix", s.current + 1, <<>>)
        p3 == Call("is_struct_param_new_prefix", s.current + 3, <<>>)
        dotted == is(s, "Ident") /\ next_is(s, 1, "Dot") /\ next_is(s, 2, "Ident")
    IN  IF is(s, "Ident") /\ next_is(s, 1, "LeftCurly") THEN "true"
        ELSE IF dotted /\ next_is(s, 3, "LeftCurly") THEN "true"
        ELSE IF is(s, "Ident") /\ next_is(s, 1, "LeftAngle") /\ p1 # "false" THEN p1
        ELSE IF dotted /\ next_is(s, 3, "LeftAngle") /\ p3 # "false" THEN p3
        ELSE "false"

parser_struct_new_expr(s) ==
    LET t == Call("parser_type", s, <<>>) IN Then(t, Call("parser_struct_new", t, <<t.val>>))

parser_macro_default_expr(s) ==
    Peek(s,
        LET expr == expr_new(s)
            a == Call("must", s, <<"LeftParen">>)
            z == Call("must", a, <<"RightParen">>)
        IN  Then(a, Then(z, Ret(z, [expr EXCEPT !.node = "MacroDefault"]))))

parser_macro_sizeof(s) ==
    Peek(s,
        LET expr == expr_new(s)
            a == Call("must", s, <<"LeftParen">>)
            t == Call("parser_single_type", a, <<>>)
            z == Call("must", t, <<"RightParen">>)
        IN  Then(a, Then(t, Then(z, Ret(z, WithNode(expr, "MacroSizeof", [target_type |-> t.val]))))))

parser_macro_reflect_hash(s) ==
    Peek(s,
        LET expr == expr_new(s)
            a == Call("must", s, <<"LeftParen">>)
            t == Call("parser_single_type", a, <<>>)
            z == Call("must", t, <<"RightParen">>)
        IN  Then(a, Then(t, Then(z, Ret(z, WithNode(expr, "MacroReflectHash", [target_type |-> t.val]))))))

\* Expr::ident(start, end, literal)
ExprIdent(start, end, literal) == [start |-> start, end |-> end, node |-> "Ident", ident |-> literal]

\* the closure without its co_return call
coroutine_fn_closure_no_return(s, call_expr) ==
    LET vardef_stmt == WithNode(stmt_new(s), "VarDef",
                           [var_decl |-> [type_ |-> TypeOf("Unknown"), ident |-> "result",
                                          symbol_start |-> 0, symbol_end |-> 0],
                            right |-> call_expr])
    IN  [AstFnDef EXCEPT !.is_co_async = TRUE, !.return_type = TypeOf("Void"),
                         !.body = <<vardef_stmt>>]

\* the caller has established InRange(s) (stmt_new peeks)
coroutine_fn_closure(s, call_expr) ==
    LET vardef_stmt == WithNode(stmt_new(s), "VarDef",
                           [var_decl |-> [type_ |-> TypeOf("Unknown"), ident |-> "result",
                                          symbol_start |-> 0, symbol_end |-> 0],
                            right |-> call_expr])
        call_stmt == WithNode(stmt_new(s), "Call",
                         [left |-> ExprIdent(0, 0, "co_return"), generics_args |-> <<>>,
                          args |-> <<[start |-> 0, end |-> 0, node |-> "Unary", op |-> "La",
                                      operand |-> ExprIdent(0, 0, "result")]>>,
                          spread |-> FALSE])
    IN  [AstFnDef EXCEPT !.is_co_async = TRUE, !.return_type = TypeOf("Void"),
                         !.body = <<vardef_stmt, call_stmt>>]

\* the caller has established InRange(s)
coroutine_fn_void_closure(s, call_expr) ==
    LET call_stmt == IF call_expr.node = "Call"
                     THEN [call_expr EXCEPT !.start = Cur(s).start, !.end = Cur(s).end]
                     ELSE stmt_new(s)
    IN  [AstFnDef EXCEPT !.is_co_async = TRUE, !.return_type = TypeOf("Void"),
                         !.body = <<call_stmt>>]

MacroCoAsyncExpr(s, call_expr, flag_expr) ==
    [origin_call |-> call_expr,
     closure_fn |-> Call("coroutine_fn_closure", s, <<call_expr>>),
     closure_fn_void |-> Call("coroutine_fn_void_closure", s, <<call_expr>>),
     flag_expr |-> flag_expr, return_type |-> TypeOf("Void")]

parser_go_expr(s) ==
    LET g == Call("must", s, <<"Go">>)
        c == Call("parser_expr", g, <<>>)
    IN  Then(g, Then(c,
            IF c.val.node # "Call"
            THEN Fail(c, c.val.start, c.val.end, "go expr must be call", "")
            ELSE Peek(c, Ret(c, WithNode(expr_new(c), "MacroCoAsync",
                                         MacroCoAsyncExpr(c, c.val, Nil))))))

parser_macro_co_async_expr(s) ==
    Peek(s,
        LET expr == expr_new(s)
            a == Call("must", s, <<"LeftParen">>)
            c == Call("parser_expr", a, <<>>)
            cm == Call("consume", c, <<"Comma">>)
            f == Call("parser_expr", cm, <<>>)
            \* after the optional flag expression
            d == IF cm.val THEN f ELSE Ret(cm, Nil)
            z == Call("must", d, <<"RightParen">>)
        IN  Then(a, Then(c,
                IF c.val.node # "Call" THEN Abort(c, "co_async expr must be call")
                ELSE Peek(c, Then(cm, Then(d, Then(z,
                        Ret(z, WithNode(expr, "MacroCoAsync",
                                        MacroCoAsyncExpr(c, c.val, d.val))))))))))

parser_macro_ula_expr(s) ==
    Peek(s,
        LET expr == expr_new(s)
            a == Call("must", s, <<"LeftParen">>)
            e == Call("parser_expr", a, <<>>)
            z == Call("must", e, <<"RightParen">>)
        IN  Then(a, Then(e, Then(z, Ret(z, WithNode(expr, "MacroUla", [src |-> e.val]))))))

parser_macro_call(s) ==
    LET token == Call("must", s, <<"MacroIdent">>) IN
    Then(token,
        CASE token.val.literal = "sizeof" -> Call("parser_macro_sizeof", token, <<>>)
          [] token.val.literal = "reflect_hash" -> Call("parser_macro_reflect_hash", token, <<>>)
          [] token.val.literal = "default" -> Call("parser_macro_default_expr", token, <<>>)
          [] token.val.literal = "co_async" -> Call("parser_macro_co_async_expr", token, <<>>)
          [] token.val.literal = "ula" -> Call("parser_macro_ula_expr", token, <<>>)
          [] OTHER -> Fail(token, token.val.start, token.val.end, "macro not defined",
                           token.val.literal))

\* the conditions are collected in reverse order
match_cond_loop_reversed(s, cond_list) ==
    LET e == Call("parser_precedence_expr", s, <<PrecAssign, "Or">>)
        c == Call("consume", e, <<"Or">>)
    IN  Then(e, Then(c,
            IF c.val THEN Call("match_cond_loop", c, <<<<e.val>> \o cond_list>>)
            ELSE Ret(c, <<e.val>> \o cond_list)))

\* loop { push(parser_precedence_expr(Assign, Or)?); if !consume(Or) { break } }
match_cond_loop(s, cond_list) ==
    LET e == Call("parser_precedence_expr", s, <<PrecAssign, "Or">>)
        c == Call("consume", e, <<"Or">>)
    IN  Then(e, Then(c,
            IF c.val THEN Call("match_cond_loop", c, <<Append(cond_list, e.val)>>)
            ELSE Ret(c, Append(cond_list, e.val))))

\* while !self.consume(RightCurly) { ... } of parser_match_expr
match_cases_loop(s, has_subject, cases) ==
    LET c == Call("consume", s, <<"RightCurly">>)
        s1 == [c EXCEPT !.match_cond = TRUE]
        e == Call("parser_expr", s1, <<>>)
        cl == IF has_subject THEN Call("match_cond_loop", s1, <<<<>>>>) ELSE Then(e, Ret(e, <<e.val>>))
        ar == Call("must", cl, <<"RightArrow">>)
        s2 == [ar EXCEPT !.match_cond = FALSE]
        is_body == is(s2, "LeftCurly")
        b == Call("parser_body", s2, <<>>)
        x == Call("parser_expr", s2, <<>>)
        h == IF is_body THEN b ELSE x
        se == Call("must_stmt_end", h, <<>>)
        case == [cond_list |-> cl.val,
                 handle_body |-> IF is_body THEN [node |-> "Body", stmts |-> b.val] ELSE Nil,
                 handle_expr |-> IF is_body THEN Nil ELSE x.val,
                 is_default |-> FALSE]
    IN  Then(c,
            IF c.val THEN Ret(c, cases)
            ELSE Then(cl, Then(ar, Peek(s2, Then(h, Then(se,
                    Call("match_cases_loop", se, <<has_subject, Append(cases, case)>>)))))))

parser_match_expr(s) ==
    LET m == Call("must", s, <<"Match">>)
        expr == expr_new(m)
        has_subject == ~is(m, "LeftCurly")
        sub == Call("parser_expr_with_precedence", m, <<>>)
        \* after the optional subject
        s1 == IF has_subject THEN Then(sub, [sub EXCEPT !.match_subject = TRUE]) ELSE Ret(m, Nil)
        lc == Call("must", s1, <<"LeftCurly">>)
        cs == Call("match_cases_loop", lc, <<has_subject, <<>>>>)
    IN  Then(m, Peek(m, Then(s1, Then(lc, Then(cs,
            Ret([cs EXCEPT !.match_subject = FALSE],
                WithNode(expr, "Match", [subject |-> s1.val, cases |-> cs.val])))))))

parser_expr(s) ==
    Peek(s,
        LET struct_new == Call("parser_is_struct_new_expr", s, <<>>) IN
        IF struct_new = "panic" THEN Abort(s, "index out of bounds")
        ELSE IF struct_new = "true" THEN Call("parser_struct_new_expr", s, <<>>)
        ELSE IF is(s, "Go") THEN Call("parser_go_expr", s, <<>>)
        ELSE IF is(s, "Match") THEN Call("parser_match_expr", s, <<>>)
        ELSE IF is(s, "Fn") THEN Call("parser_fndef_expr", s, <<>>)
        ELSE IF is(s, "New") THEN Call("parser_new_expr", s, <<>>)
        ELSE Call("parser_expr_with_precedence", s, <<>>))

\* prefix_fn(self) for the prefix parser named in the rule
CallPrefix(prefix, s) ==
    CASE prefix = "parser_left_paren_expr" -> Call("parser_left_paren_expr", s, <<>>)
      [] prefix = "parser_vec_new" -> Call("parser_vec_new", s, <<>>)
      [] prefix = "parser_left_curly_expr" -> Call("parser_left_curly_expr", s, <<>>)
      [] prefix = "parser_macro_call" -> Call("parser_macro_call", s, <<>>)
      [] prefix = "parser_unary" -> Call("parser_unary", s, <<>>)
      [] prefix = "parser_literal" -> Call("parser_literal", s, <<>>)
      [] prefix = "parser_match_is_expr" -> Call("parser_match_is_expr", s, <<>>)
      [] prefix = "parser_ident_expr" -> Call("parser_ident_expr", s, <<>>)

\* infix_fn(self, left) for the infix parser named in the rule
CallInfix(infix, s, left) ==
    CASE infix = "parser_call_expr" -> Call("parser_call_expr", s, <<left>>)
      [] infix = "parser_access" -> Call("parser_access", s, <<left>>)
      [] infix = "parser_binary" -> Call("parser_binary", s, <<left>>)
      [] infix = "parser_type_args_expr" -> Call("parser_type_args_expr", s, <<left>>)
      [] infix = "parser_select" -> Call("parser_select", s, <<left>>)
      [] infix = "parser_as_expr" -> Call("parser_as_expr", s, <<left>>)
      [] infix = "parser_is_expr" -> Call("parser_is_expr", s, <<left>>)
      [] infix = "parser_catch_expr" -> Call("parser_catch_expr", s, <<left>>)

----------------------------------------------------------------------------
(* The statement parser *)


\* the error is recorded twice
PushErrorTwice(r) ==
    Ret([r EXCEPT !.errors = Append(Append(@, AnalyzerError(r.err)), AnalyzerError(r.err))], Nil)

\* self.errors.push(AnalyzerError { start: e.0, end: e.1, message: e.2 })
PushError(r) == Ret([r EXCEPT !.errors = Append(@, AnalyzerError(r.err))], Nil)

\* the fields of Syntax that the parser reads
SameCursor(a, b) ==
    /\ a.current = b.current
    /\ a.type_params_table = b.type_params_table
    /\ a.match_cond = b.match_cond
    /\ a.match_subject = b.match_subject

\* while !is(RightCurly) && !is(Eof) { match parser_stmt() { Ok => push, Err => synchronize(1) } }
\* An iteration that fails and leaves the parser where it started repeats forever.
body_loop(s, stmts) ==
    Peek(s,
        IF is(s, "RightCurly") \/ is(s, "Eof") THEN Ret(s, stmts)
        ELSE
            LET r == Call("parser_stmt", s, <<>>)
                y == Call("synchronize", PushError(r), <<1>>)
            IN  IF r.st = "ok" THEN Call("body_loop", r, <<Append(stmts, r.val)>>)
                ELSE IF r.st # "err" THEN r
                ELSE Then(y, IF SameCursor(y, s) THEN Diverge(y) ELSE Call("body_loop", y, <<stmts>>)))

parser_body(s) ==
    LET a == Call("must", s, <<"LeftCurly">>)
        l == Call("body_loop", a, <<<<>>>>)
        z == Call("must", l, <<"RightCurly">>)
    IN  Then(a, Then(l, Then(z, Ret(z, l.val))))

parser_else_if(s) ==
    LET r == Call("parser_if_stmt", s, <<>>) IN Then(r, Ret(r, <<r.val>>))

parser_if_stmt(s) ==
    Peek(s,
        LET stmt == stmt_new(s)
            i == Call("must", s, <<"If">>)
            condition == Call("parser_expr_with_precedence", i, <<>>)
            consequent == Call("parser_body", condition, <<>>)
            el == Call("consume", consequent, <<"Else">>)
            alternate == IF ~el.val THEN Ret(el, <<>>)
                         ELSE Peek(el, IF is(el, "If") THEN Call("parser_else_if", el, <<>>) ELSE Call("parser_body", el, <<>>))
        IN  Then(i, Then(condition, Then(consequent, Then(el, Then(alternate,
                Ret(alternate, WithNode(stmt, "If",
                    [condition |-> condition.val, consequent |-> consequent.val,
                     alternate |-> alternate.val]))))))))

\* the scan of is_for_tradition_stmt: val "eof" or the semicolon count
for_tradition_scan(pos, semicolon_count, close, current_line) ==
    IF ~(pos < Len(tokens)) THEN semicolon_count
    ELSE
        LET t == TokAt(pos)
            n == IF close = 0 /\ t.token_type = "StmtEof" THEN semicolon_count + 1
                 ELSE semicolon_count
            c == IF t.token_type = "LeftCurly" THEN close + 1
                 ELSE IF t.token_type = "RightCurly" THEN close - 1 ELSE close
        IN  IF t.token_type = "Eof" THEN -1
            ELSE IF t.line # current_line THEN n
            ELSE Call("for_tradition_scan", pos + 1, <<n, c, current_line>>)

\* the caller has established InRange(s)
is_for_tradition_stmt(s) ==
    LET semicolon_count == Call("for_tradition_scan", s.current, <<0, 0, Cur(s).line>>) IN
    IF semicolon_count = -1
    THEN Fail(s, Cur(s).start, Cur(s).end, "unexpected end of file", "")
    ELSE IF semicolon_count # 0 /\ semicolon_count # 2
    THEN Fail(s, Cur(s).start, Cur(s).end, "for statement must have two semicolons", "")
    ELSE Ret(s, semicolon_count = 2)

\* the scan of parser_is_tuple_typedecl: the position of the closing paren, -1 when
\* tokens[pos] is out of range
tuple_typedecl_scan(pos, close) ==
    IF ~(pos + 1 < Len(tokens)) THEN -1
    ELSE
        LET tt == TokAt(pos + 1).token_type
            c == IF tt = "LeftParen" THEN close + 1
                 ELSE IF tt = "RightParen" THEN close - 1 ELSE close
        IN  IF tt = "RightParen" /\ c = 0 THEN pos + 1
            ELSE Call("tuple_typedecl_scan", pos + 1, <<c>>)

\* "true" | "false" | "panic"
parser_is_tuple_typedecl(cur) ==
    LET pos == Call("tuple_typedecl_scan", cur, <<1>>) IN
    IF TokAt(cur).token_type # "LeftParen" THEN "panic"
    ELSE IF pos = -1 \/ ~(pos + 1 < Len(tokens)) THEN "panic"
    ELSE IF TokAt(pos + 1).token_type # "Ident" THEN "false"
    ELSE "true"

\* "true" | "false" | "panic"; the caller has established InRange(s)
is_type_begin_stmt(s) ==
    LET dotted == is(s, "Ident") /\ next_is(s, 1, "Dot") /\ next_is(s, 2, "Ident") IN
    IF is_basic_type(s) THEN "true"
    ELSE IF is(s, "Any") THEN "true"
    ELSE IF is(s, "LeftCurly") \/ is(s, "LeftSquare") THEN "true"
    ELSE IF is(s, "Ptr") THEN "true"
    ELSE IF Cur(s).token_type \in {"Arr", "Map", "Tup", "Vec", "Set", "Chan"} THEN "true"
    ELSE IF is(s, "Fn") /\ next_is(s, 1, "LeftParen") THEN "true"
    ELSE IF is(s, "Ident") /\ next_is(s, 1, "Ident") THEN "true"
    ELSE IF dotted /\ next_is(s, 3, "Ident") THEN "true"
    ELSE IF is(s, "Ident") /\ next_is(s, 1, "Or") THEN "true"
    ELSE IF dotted /\ next_is(s, 3, "Or") THEN "true"
    ELSE IF is(s, "Ident") /\ next_is(s, 1, "LeftAngle") THEN "true"
    ELSE IF dotted /\ next_is(s, 3, "LeftAngle") THEN "true"
    ELSE IF is(s, "LeftParen") THEN Call("parser_is_tuple_typedecl", s.current, <<>>)
    ELSE "false"

parser_for_stmt(s) ==
    LET a == Call("advance", s, <<>>)
        stmt == stmt_new(a)
        tr == Call("is_for_tradition_stmt", a, <<>>)
        \* for init; cond; update { body }
        init == Call("parser_stmt", a, <<>>)
        e1 == Call("must", init, <<"StmtEof">>)
        cond == Call("parser_expr_with_precedence", e1, <<>>)
        e2 == Call("must", cond, <<"StmtEof">>)
        update == Call("parser_stmt", e2, <<>>)
        tbody == Call("parser_body", update, <<>>)
        \* for k, v in iterate { body }
        first_ident == Call("must", a, <<"Ident">>)
        cm == Call("consume", first_ident, <<"Comma">>)
        second_ident == Call("must", cm, <<"Ident">>)
        sec == IF cm.val THEN Then(second_ident,
                                  Ret(second_ident, VarDeclExpr(TypeOf("Unknown"), second_ident.val)))
               ELSE Ret(cm, Nil)
        in_token == Call("must", sec, <<"In">>)
        iterate == Call("parser_precedence_expr", in_token, <<PrecTypeCast, "Unknown">>)
        ibody == Call("parser_body", iterate, <<>>)
        \* for condition { body }
        condition == Call("parser_expr_with_precedence", a, <<>>)
        cbody == Call("parser_body", condition, <<>>)
    IN  Then(a, Peek(a, Then(tr,
            IF tr.val
            THEN Then(init, Then(e1, Then(cond, Then(e2, Then(update, Then(tbody,
                    Ret(tbody, WithNode(stmt, "ForTradition",
                        [init |-> init.val, cond |-> cond.val, update |-> update.val,
                         body |-> tbody.val]))))))))
            ELSE IF is(a, "Ident") /\ (next_is(a, 1, "Comma") \/ next_is(a, 1, "In"))
            THEN Then(first_ident, Then(cm, Then(sec, Then(in_token, Then(iterate, Then(ibody,
                    Ret(ibody, WithNode(stmt, "ForIterator",
                        [iterate |-> iterate.val,
                         first |-> VarDeclExpr(TypeOf("Unknown"), first_ident.val),
                         second |-> sec.val, body |-> ibody.val]))))))))
            ELSE Then(condition, Then(cbody,
                    Ret(cbody, WithNode(stmt, "ForCond",
                        [condition |-> condition.val, body |-> cbody.val])))))))

\* a compound assignment stores its right operand alone
parser_assign_plain(s, left) ==
    Peek(s,
        LET stmt == stmt_new(s)
            eq == Call("consume", s, <<"Equal">>)
            right == Call("parser_expr", eq, <<>>)
            t == Call("advance", s, <<>>)
            operand == Call("parser_expr_with_precedence", t, <<>>)
        IN  IF eq.val
            THEN Then(right, Ret(right, WithNode(stmt, "Assign", [left |-> left, right |-> right.val])))
            ELSE IF ~is_complex_assign(t.val.token_type)
            THEN Fail(t, t.val.start, t.val.end, "assign= token exception", t.val.token_type)
            ELSE Peek(t, Then(operand,
                    Ret(operand, WithNode(stmt, "Assign",
                        [left |-> left, right |-> operand.val])))))

parser_assign(s, left) ==
    Peek(s,
        LET stmt == stmt_new(s)
            eq == Call("consume", s, <<"Equal">>)
            right == Call("parser_expr", eq, <<>>)
            t == Call("advance", s, <<>>)
            operand == Call("parser_expr_with_precedence", t, <<>>)
        IN  IF eq.val
            THEN Then(right, Ret(right, WithNode(stmt, "Assign", [left |-> left, right |-> right.val])))
            ELSE IF ~is_complex_assign(t.val.token_type)
            THEN Fail(t, t.val.start, t.val.end, "assign= token exception", t.val.token_type)
            ELSE Peek(t, Then(operand,
                    Ret(operand, WithNode(stmt, "Assign",
                        [left |-> left,
                         right |-> WithNode(expr_new(t), "Binary",
                                       [op |-> token_to_expr_op(t.val.token_type),
                                        left |-> left, right |-> operand.val])])))))

parser_expr_begin_stmt(s) ==
    LET l == Call("parser_expr", s, <<>>)
        left == l.val
    IN  Then(l, Peek(l,
            IF left.node = "Call"
            THEN IF is(l, "Equal")
                 THEN Fail(l, Cur(l).start, Cur(l).end, "call expr cannot assign", "")
                 ELSE Ret(l, [left EXCEPT !.start = Cur(l).start, !.end = Cur(l).end])
            ELSE IF left.node = "Catch"
            THEN IF is(l, "Equal") \/ is(l, "Catch")
                 THEN Fail(l, Cur(l).start, Cur(l).end,
                           "catch expr cannot assign or immediately next catch", "")
                 ELSE Ret(l, [left EXCEPT !.start = Cur(l).start, !.end = Cur(l).end])
            ELSE IF is_stmt_eof(l)
            THEN Fail(l, Cur(l).start, Cur(l).end, "expr incompleteness", "")
            ELSE Call("parser_assign", l, <<left>>)))

\* Some(parser_expr()?) unless the statement ends here
parser_optional_expr(s) ==
    Peek(s, IF ~is_stmt_eof(s) /\ ~is(s, "RightCurly") THEN Call("parser_expr", s, <<>>) ELSE Ret(s, Nil))

parser_break_stmt(s) ==
    Peek(s,
        LET stmt == stmt_new(s)
            b == Call("must", s, <<"Break">>)
            e == Call("parser_optional_expr", b, <<>>)
        IN  Then(b, Then(e, Ret(e, WithNode(stmt, "Break", [expr |-> e.val])))))

parser_continue_stmt(s) ==
    Peek(s,
        LET stmt == stmt_new(s)
            c == Call("must", s, <<"Continue">>)
        IN  Then(c, Ret(c, [stmt EXCEPT !.node = "Continue"])))

parser_return_stmt(s) ==
    Peek(s,
        LET stmt == stmt_new(s)
            a == Call("advance", s, <<>>)
            e == Call("parser_optional_expr", a, <<>>)
        IN  Then(a, Then(e, Ret(e, WithNode(stmt, "Return", [expr |-> e.val])))))

\* while consume(Dot) { package.push(must(Ident)?.literal) }
import_package_loop(s, package) ==
    LET d == Call("consume", s, <<"Dot">>)
        i == Call("must", d, <<"Ident">>)
    IN  Then(d, IF ~d.val THEN Ret(d, package)
                ELSE Then(i, Call("import_package_loop", i, <<Append(package, i.val.literal)>>)))

parser_import_stmt(s) ==
    Peek(s,
        LET stmt == stmt_new(s)
            a == Call("advance", s, <<>>)
            token == Call("advance", a, <<>>)
            pk == Call("import_package_loop", token, <<<<token.val.literal>>>>)
            \* after the file or package
            f == IF token.val.token_type = "StringLiteral" THEN Ret(token, <<>>) ELSE pk
            as == Call("consume", f, <<"As">>)
            tk == Call("advance", as, <<>>)
            \* after the optional `as name`
            g == IF as.val THEN tk ELSE Ret(as, OobToken)
        IN  Then(a, Then(token,
                IF token.val.token_type \notin {"StringLiteral", "Ident"}
                THEN Fail(token, token.val.start, token.val.end,
                          "import token must be string or ident", "")
                ELSE Then(f, Then(as, Then(g,
                    IF as.val /\ tk.val.token_type \notin {"Ident", "ImportStar"}
                    THEN Fail(tk, tk.val.start, tk.val.end,
                              "import as token must be ident or *", "")
                    ELSE Ret(g, WithNode(stmt, "Import",
                            [file |-> IF token.val.token_type = "StringLiteral"
                                      THEN token.val.literal ELSE "None",
                             ast_package |-> f.val,
                             as_name |-> IF as.val THEN tk.val.literal ELSE "None"]))))))))

\* AstNode::can_assign (ast.rs): the expressions that may stand left of `=`
can_assign(node) == node \in {"Ident", "Access", "Select"}

\* the loop of parser_tuple_destr
tuple_destr_loop(s, elements) ==
    Peek(s,
        LET nested == Call("parser_tuple_destr", s, <<>>)
            e == Call("parser_expr", s, <<>>)
            element == IF is(s, "LeftParen")
                       THEN Then(nested, Ret(nested, WithNode(expr_new(s), "TupleDestr",
                                                              [elements |-> nested.val])))
                       ELSE Then(e, IF ~can_assign(e.val.node)
                                    THEN Peek(e, Fail(e, Cur(e).start, Cur(e).end,
                                                      "tuple destr src operand assign failed", ""))
                                    ELSE e)
            c == Call("consume", element, <<"Comma">>)
        IN  Then(element, Then(c,
                IF c.val THEN Call("tuple_destr_loop", c, <<Append(elements, element.val)>>)
                ELSE Ret(c, Append(elements, element.val)))))

\* val: TupleDestrExpr.elements
parser_tuple_destr(s) ==
    LET a == Call("must", s, <<"LeftParen">>)
        l == Call("tuple_destr_loop", a, <<<<>>>>)
        z == Call("must", l, <<"RightParen">>)
    IN  Then(a, Then(l, Then(z, Ret(z, l.val))))

\* the loop of parser_var_tuple_destr
var_tuple_destr_loop(s, elements) ==
    Peek(s,
        LET nested == Call("parser_var_tuple_destr", s, <<>>)
            i == Call("must", s, <<"Ident">>)
            element == IF is(s, "LeftParen")
                       THEN Then(nested, Ret(nested, WithNode(expr_new(s), "TupleDestr",
                                                              [elements |-> nested.val])))
                       ELSE Then(i, Peek(i, Ret(i, WithNode(expr_new(i), "VarDecl",
                                    [ident |-> i.val.literal, type_ |-> TypeOf("Unknown")]))))
            c == Call("consume", element, <<"Comma">>)
        IN  Then(element, Then(c,
                IF c.val THEN Call("var_tuple_destr_loop", c, <<Append(elements, element.val)>>)
                ELSE Ret(c, Append(elements, element.val)))))

\* val: TupleDestrExpr.elements
parser_var_tuple_destr(s) ==
    LET a == Call("must", s, <<"LeftParen">>)
        l == Call("var_tuple_destr_loop", a, <<<<>>>>)
        z == Call("must", l, <<"RightParen">>)
    IN  Then(a, Then(l, Then(z, Ret(z, l.val))))

parser_var_begin_stmt(s) ==
    Peek(s,
        LET stmt == stmt_new(s)
            type_decl == Call("parser_type", s, <<>>)
            td == Call("parser_var_tuple_destr", type_decl, <<>>)
            teq == Call("must", td, <<"Equal">>)
            tright == Call("parser_expr", teq, <<>>)
            ident == Call("must", type_decl, <<"Ident">>)
            eq == Call("must", ident, <<"Equal">>)
            right == Call("parser_expr", eq, <<>>)
        IN  Then(type_decl, Peek(type_decl,
                IF is(type_decl, "LeftParen")
                THEN Then(td, Then(teq, Then(tright,
                        Ret(tright, WithNode(stmt, "VarTupleDestr",
                            [tuple_destr |-> td.val, right |-> tright.val])))))
                ELSE Then(ident, Then(eq, Then(right,
                        Ret(right, WithNode(stmt, "VarDef",
                            [var_decl |-> VarDeclExpr(type_decl.val, ident.val),
                             right |-> right.val]))))))))

parser_type_begin_stmt(s) ==
    Peek(s,
        LET stmt == stmt_new(s)
            type_decl == Call("parser_type", s, <<>>)
            ident == Call("must", type_decl, <<"Ident">>)
            eq == Call("must", ident, <<"Equal">>)
            right == Call("parser_expr", eq, <<>>)
        IN  Then(type_decl, Then(ident, Peek(ident,
                IF is(ident, "LeftParen")
                THEN Fail(ident, Cur(ident).start, Cur(ident).end,
                          "type begin stmt not support tuple destr", "")
                ELSE Then(eq, Then(right,
                        Ret(right, WithNode(stmt, "VarDef",
                            [var_decl |-> VarDeclExpr(type_decl.val, ident.val),
                             right |-> right.val]))))))))

\* the scan of is_impl_fn over `ident<...>`: [close, pos] when the loop ends
impl_fn_scan(pos, close, current_line) ==
    IF ~(pos < Len(tokens)) THEN [close |-> close, pos |-> pos]
    ELSE
        LET t == TokAt(pos)
            c == IF t.token_type = "LeftAngle" THEN close + 1
                 ELSE IF t.token_type = "RightAngle" THEN close - 1 ELSE close
        IN  IF t.token_type = "Eof" \/ t.token_type = "StmtEof" \/ t.line # current_line
            THEN [close |-> close, pos |-> pos]
            ELSE IF t.token_type = "RightAngle" /\ c = 0 THEN [close |-> c, pos |-> pos]
            ELSE Call("impl_fn_scan", pos + 1, <<c, current_line>>)

\* "true" | "false" | "panic"; the caller has established InRange(s)
is_impl_fn(s) ==
    LET sc == Call("impl_fn_scan", s.current + 1, <<1, TokAt(s.current + 1).line>>) IN
    IF is_basic_type(s) THEN "true"
    ELSE IF is(s, "Vec") \/ is(s, "Map") \/ is(s, "Set") THEN "true"
    ELSE IF is(s, "Chan") THEN "true"
    ELSE IF is(s, "Ident") /\ next_is(s, 1, "Dot") THEN "true"
    ELSE IF is(s, "Ident") /\ next_is(s, 1, "LeftParen") THEN "false"
    ELSE IF is(s, "Ident") /\ next_is(s, 1, "LeftAngle")
    THEN IF sc.close > 0 THEN "false"
         ELSE IF ~(sc.pos + 1 < Len(tokens)) THEN "panic"
         ELSE IF TokAt(sc.pos + 1).token_type = "Dot" THEN "true"
         ELSE "false"
    ELSE "false"

is_impl_type(kind) ==
    kind \in {"String", "Bool", "Int", "Uint", "Int8", "Int16", "Int32", "Int64",
              "Uint8", "Uint16", "Uint32", "Uint64", "Float", "Float32", "Float64",
              "Chan", "Vec", "Map", "Set", "Tuple", "Alias"}

\* GenericsParam::new(ident) with its constraints: (any, types)
GenericsParam(ident, any, constraints) ==
    [ident |-> ident, any |-> any, constraints |-> constraints]

\* loop { ident = advance(); [: t1|t2]; params.push(param); type_params_table.insert(ident);
\*        if !consume(Comma) { break } }
generics_params_loop(s, params) ==
    LET ident == Call("advance", s, <<>>)
        c == Call("consume", ident, <<"Colon">>)
        cons == Call("parser_union_loop", c, <<<<>>>>)
        \* after the optional constraints
        d == IF c.val THEN cons ELSE Ret(c, <<>>)
        ins == [d EXCEPT !.type_params_table = @ \cup {ident.val.literal}]
        cm == Call("consume", ins, <<"Comma">>)
        ps == Append(params, GenericsParam(ident.val.literal, ~c.val, d.val))
    IN  Then(ident, Then(c, Then(d, Then(cm,
            IF cm.val THEN Call("generics_params_loop", cm, <<ps>>) ELSE Ret(cm, ps)))))

\* self.type_params_table = HashMap::new(); the loop; must(RightAngle)?
parser_generics_params(s) ==
    LET l == Call("generics_params_loop", [s EXCEPT !.type_params_table = {}], <<<<>>>>)
        z == Call("must", l, <<"RightAngle">>)
    IN  Then(l, Then(z, Ret(z, l.val)))

\* loop { param_type = parser_single_type()?; assert Param; [: t1|t2];
\*        args.push(param_type); if !consume(Comma) { break } }
impl_args_loop(s, args) ==
    LET param_type == Call("parser_single_type", s, <<>>)
        c == Call("consume", param_type, <<"Colon">>)
        cons == Call("parser_union_loop", c, <<<<>>>>)
        \* after the optional constraints
        d == IF c.val THEN cons ELSE c
        cm == Call("consume", d, <<"Comma">>)
        as == Append(args, param_type.val)
    IN  Then(param_type,
            IF param_type.val.kind # "Param"
            THEN Abort(param_type, "assertion failed: matches!(param_type.kind, TypeKind::Param(_))")
            ELSE Then(c, Then(d, Then(cm,
                    IF cm.val THEN Call("impl_args_loop", cm, <<as>>) ELSE Ret(cm, as)))))

\* parser_fndef_stmt, the impl type of `if self.is_impl_fn() { ... }`: s is the state
\* rewound to the first token of the impl type; val: the impl type
parser_fndef_impl_type(s, first_token, has_args) ==
    LET id == Call("must", s, <<"Ident">>)
        a == Call("must", id, <<"LeftAngle">>)
        args == Call("impl_args_loop", a, <<<<>>>>)
        z == Call("must", args, <<"RightAngle">>)
        alias_t == [TypeOf("Alias") EXCEPT !.impl_ident = id.val.literal]
        st == Call("parser_single_type", s, <<>>)
    IN  IF first_token.token_type = "Ident"
        THEN Then(id,
                IF has_args
                THEN Then(a, Then(args, Then(z,
                        Ret(z, alias_t @@ [alias |-> [ident |-> first_token.literal,
                                                      import_as |-> "None",
                                                      args |-> args.val, has_args |-> TRUE]]))))
                ELSE Ret(id, alias_t @@ [alias |-> [ident |-> first_token.literal,
                                                    import_as |-> "None",
                                                    args |-> <<>>, has_args |-> FALSE]]))
        ELSE Then(st, Ret(st, [st.val EXCEPT !.impl_ident = first_token.literal]))

\* parser_fndef_stmt, `if self.is_impl_fn() { ... true }`: s is the state after `fn`;
\* val: fndef with generics_params and impl_type set
parser_fndef_impl(s, fndef) ==
    LET temp_current == s.current
        first_token == Call("advance", s, <<>>)
        la == Call("consume", first_token, <<"LeftAngle">>)
        gp == Call("parser_generics_params", la, <<>>)
        \* after the optional generics of the impl type
        g == IF la.val THEN gp ELSE Ret(la, <<>>)
        it == Call("parser_fndef_impl_type", [g EXCEPT !.current = temp_current],
                   <<first_token.val, la.val>>)
        dot == Call("must", it, <<"Dot">>)
    IN  Then(first_token, Then(la, Then(g, Then(it,
            IF ~is_impl_type(it.val.kind)
            THEN Peek(it, Fail(it, Cur(it).start, Cur(it).end, "type cannot impl fn", it.val.kind))
            ELSE Then(dot, Ret(dot, [fndef EXCEPT !.impl_type = it.val,
                                                  !.generics_params = g.val,
                                                  !.has_generics_params = la.val]))))))

\* parser_fndef_stmt from the return type on: s is the state after parser_params,
\* s.val the fndef with its params
parser_fndef_return(s, stmt) ==
    LET c == Call("consume", s, <<"Colon">>)
        rt == Call("parser_type", c, <<>>)
        \* after the return type
        d == IF c.val THEN rt
             ELSE Peek(c, Ret(c, Type("Void", Cur(c).start, Cur(c).end)))
        fndef2 == [s.val EXCEPT !.return_type = d.val]
        b == Call("parser_body", d, <<>>)
        fndef3 == [fndef2 EXCEPT !.body = b.val, !.end = prev(b).end]
    IN  Then(c, Then(d, Peek(d,
            IF is_stmt_eof(d)
            THEN Ret(d, WithNode(stmt, "FnDef", [fndef |-> [fndef2 EXCEPT !.is_tpl = TRUE]]))
            ELSE Then(b, Ret([b EXCEPT !.type_params_table = {}],
                             WithNode(stmt, "FnDef", [fndef |-> fndef3]))))))

\* parser_fndef_stmt from the function name on: s is the state after the optional
\* impl type, s.val the fndef so far
parser_fndef_name(s, stmt, impl_fn) ==
    LET ident == Call("must", s, <<"Ident">>)
        la == Call("consume", ident, <<"LeftAngle">>)
        gp == Call("parser_generics_params", la, <<>>)
        \* after the optional generics of the function
        g == IF impl_fn = "true" THEN Ret(ident, s.val)
             ELSE Then(la, IF la.val
                           THEN Then(gp, Ret(gp, [s.val EXCEPT !.generics_params = gp.val,
                                                               !.has_generics_params = TRUE]))
                           ELSE Ret(la, s.val))
        fndef1 == [g.val EXCEPT !.symbol_name = ident.val.literal,
                                !.fn_name = ident.val.literal]
        p == Call("parser_params", g, <<fndef1>>)
    IN  Then(ident, Then(g, Then(p, Call("parser_fndef_return", p, <<stmt>>))))

parser_fndef_stmt(s, fndef_in) ==
    Peek(s,
        LET fndef0 == [fndef_in EXCEPT !.start = Cur(s).start]
            f == Call("must", s, <<"Fn">>)
            impl_fn == Call("is_impl_fn", f, <<>>)
            im == Call("parser_fndef_impl", f, <<fndef0>>)
            \* after the optional impl type
            i == IF impl_fn = "true" THEN im ELSE Ret(f, fndef0)
        IN  Then(f, Peek(f,
                IF impl_fn = "panic" THEN Abort(f, "index out of bounds")
                ELSE Then(i, Call("parser_fndef_name", i, <<stmt_new(s), impl_fn>>)))))

\* while self.is(FnLabel) { ... } of parser_fn_label; val: fndef
fn_label_loop(s, fndef) ==
    Peek(s,
        IF ~is(s, "FnLabel") THEN Ret(s, fndef)
        ELSE
            LET token == Call("must", s, <<"FnLabel">>)
                linkto == Call("must", token, <<"Ident">>)
                literal == Call("must", token, <<"StringLiteral">>)
                l == IF is(token, "Ident") THEN linkto ELSE literal
            IN  Then(token,
                    IF token.val.literal = "linkid"
                    THEN Peek(token, Then(l, Call("fn_label_loop", l, <<[fndef EXCEPT !.linkid = l.val.literal]>>)))
                    ELSE IF token.val.literal = "local"
                    THEN Call("fn_label_loop", token, <<[fndef EXCEPT !.is_private = TRUE]>>)
                    ELSE Fail(token, token.val.start, token.val.end, "unknown fn label",
                              token.val.literal)))

parser_fn_label(s) ==
    LET l == Call("fn_label_loop", s, <<AstFnDef>>)
        e == Call("must", l, <<"StmtEof">>)
    IN  Then(l, Then(e, Call("parser_fndef_stmt", e, <<l.val>>)))

parser_let_stmt(s) ==
    Peek(s,
        LET stmt == stmt_new(s)
            l == Call("must", s, <<"Let">>)
            expr == Call("parser_expr", l, <<>>)
        IN  Then(l, Then(expr,
                IF expr.val.node # "As"
                THEN Fail(expr, expr.val.start, expr.val.end, "must be 'as' expr", "")
                ELSE Ret(expr, WithNode(stmt, "Let", [expr |-> expr.val])))))

parser_throw_stmt(s) ==
    Peek(s,
        LET stmt == stmt_new(s)
            th == Call("must", s, <<"Throw">>)
            expr == Call("parser_expr", th, <<>>)
        IN  Then(th, Then(expr, Ret(expr, WithNode(stmt, "Throw", [expr |-> expr.val])))))

parser_left_paren_begin_stmt(s) ==
    LET current_pos == s.current
        a == Call("must", s, <<"LeftParen">>)
        e == Call("parser_expr", a, <<>>)
        is_comma == is(e, "Comma")
        back == [e EXCEPT !.current = current_pos]
        stmt == stmt_new(back)
        td == Call("parser_tuple_destr", back, <<>>)
        eq == Call("must", td, <<"Equal">>)
        right == Call("parser_expr", eq, <<>>)
    IN  Then(a, Then(e, Peek(e,
            IF is_comma
            THEN Then(td, Then(eq, Then(right,
                    Ret(right, WithNode(stmt, "Assign",
                        [left |-> WithNode(expr_new(back), "TupleDestr", [elements |-> td.val]),
                         right |-> right.val])))))
            ELSE Call("parser_expr_begin_stmt", back, <<>>))))

parser_type_alias_stmt(s) ==
    Peek(s,
        LET stmt == stmt_new(s)
            ty == Call("must", s, <<"Type">>)
            alias_ident == Call("must", ty, <<"Ident">>)
            la == Call("consume", alias_ident, <<"LeftAngle">>)
            gp == Call("parser_generics_params", la, <<>>)
            \* after the optional <params>
            g == IF la.val THEN gp ELSE Ret(la, <<>>)
            eq == Call("must", g, <<"Equal">>)
            alias_type == Call("parser_type", eq, <<>>)
        IN  Then(ty, Then(alias_ident, Then(la,
                IF la.val /\ ~InRange(la) THEN Peek(la, la)
                ELSE IF la.val /\ is(la, "RightAngle")
                THEN Fail(la, Cur(la).start, Cur(la).end, "type alias params cannot be empty", "")
                ELSE Then(g, Then(eq, Then(alias_type,
                    Ret([alias_type EXCEPT !.type_params_table = {}],
                        WithNode(stmt, "TypeAlias",
                            [ident |-> alias_ident.val.literal,
                             symbol_start |-> alias_ident.val.start,
                             symbol_end |-> alias_ident.val.end,
                             params |-> g.val,
                             type_ |-> alias_type.val])))))))))

\* self.fake_new(expr) after an expression parsed as a statement
FakeStmt(r) == Then(r, Peek(r, Ret(r, fake_new(r, r.val))))

\* the `match self.peek().token_type` of parser_stmt
parser_stmt_dispatch(s) ==
    LET tt == Cur(s).token_type
        type_begin == Call("is_type_begin_stmt", s, <<>>)
    IN  CASE tt = "Var" -> Call("parser_var_begin_stmt", s, <<>>)
          [] tt = "LeftParen" -> Call("parser_left_paren_begin_stmt", s, <<>>)
          [] tt = "Throw" -> Call("parser_throw_stmt", s, <<>>)
          [] tt = "Let" -> Call("parser_let_stmt", s, <<>>)
          [] tt = "FnLabel" -> Call("parser_fn_label", s, <<>>)
          [] tt = "Ident" -> Call("parser_expr_begin_stmt", s, <<>>)
          [] tt = "Fn" -> Call("parser_fndef_stmt", s, <<AstFnDef>>)
          [] tt = "If" -> Call("parser_if_stmt", s, <<>>)
          [] tt = "For" -> Call("parser_for_stmt", s, <<>>)
          [] tt = "Return" -> Call("parser_return_stmt", s, <<>>)
          [] tt = "Import" -> Call("parser_import_stmt", s, <<>>)
          [] tt = "Type" -> Call("parser_type_alias_stmt", s, <<>>)
          [] tt = "Continue" -> Call("parser_continue_stmt", s, <<>>)
          [] tt = "Break" -> Call("parser_break_stmt", s, <<>>)
          [] tt = "Go" -> FakeStmt(Call("parser_go_expr", s, <<>>))
          [] tt = "Match" -> FakeStmt(Call("parser_match_expr", s, <<>>))
          [] tt = "MacroIdent" -> FakeStmt(Call("parser_expr_with_precedence", s, <<>>))
          [] OTHER ->
                IF type_begin = "panic" THEN Abort(s, "index out of bounds")
                ELSE IF type_begin = "true" THEN Call("parser_type_begin_stmt", s, <<>>)
                ELSE Fail(s, Cur(s).start, Cur(s).end, "statement cannot start with",
                          Cur(s).literal)

parser_stmt(s) ==
    Peek(s,
        LET stmt == Call("parser_stmt_dispatch", s, <<>>)
            e == Call("must_stmt_end", stmt, <<>>)
        IN  Then(stmt, Then(e, Ret(e, stmt.val))))

\* Syntax::parser, the body of `while !self.is(Eof)`, run from state s:
\*   match self.parser_stmt() {
\*       Ok(stmt) => stmt_list.push(stmt),
\*       Err(e) => { self.errors.push(..); let found = self.synchronize(0);
\*                   if !found { self.advance(); } } }
\* kind: "ok" | "found" | "skip" | "panic" | "diverge"; s: the state it ends in
LoopBody(s) ==
    LET r == Call("parser_stmt", s, <<>>)
        y == Call("synchronize", PushError(r), <<0>>)
        a == Call("advance", y, <<>>)
    IN  IF r.st = "ok" THEN [kind |-> "ok", s |-> r]
        ELSE IF r.st # "err" THEN [kind |-> r.st, s |-> r]
        ELSE IF y.st # "ok" THEN [kind |-> y.st, s |-> y]
        ELSE IF y.val THEN [kind |-> "found", s |-> y]
        ELSE IF a.st # "ok" THEN [kind |-> a.st, s |-> a]
        ELSE [kind |-> "skip", s |-> a]

\* self.method(args): every method of Syntax and every loop of a method is entered
\* through this one operator
Call(method, s, args) ==
    CASE method = "advance" -> advance(s)
      [] method = "consume" -> consume(s, args[1])
      [] method = "must" -> must(s, args[1])
      [] method = "find_rule" -> find_rule(s)
      [] method = "must_stmt_end" -> must_stmt_end(s)
      [] method = "synchronize_loop" -> synchronize_loop(s, args[1], args[2])
      [] method = "synchronize" -> synchronize(s, args[1])
      [] method = "parser_type_list" -> parser_type_list(s, args[1], args[2])
      [] method = "parser_angle_type" -> parser_angle_type(s, args[1], args[2])
      [] method = "parser_struct_fields" -> parser_struct_fields(s, args[1])
      [] method = "parser_single_type" -> parser_single_type(s)
      [] method = "parser_union_loop" -> parser_union_loop(s, args[1])
      [] method = "parser_type" -> parser_type(s)
      [] method = "type_args_loop" -> type_args_loop(s, args[1])
      [] method = "parser_left_angle_is_type_args" -> parser_left_angle_is_type_args(s, args[1])
      [] method = "parser_infix_token" -> parser_infix_token(s, args[1])
      [] method = "parser_precedence_loop" -> parser_precedence_loop(s, args[1], args[2], args[3], args[4])
      [] method = "parser_precedence_expr" -> parser_precedence_expr(s, args[1], args[2])
      [] method = "parser_expr_with_precedence" -> parser_expr_with_precedence(s)
      [] method = "parser_binary" -> parser_binary(s, args[1])
      [] method = "expr_to_type_alias" -> expr_to_type_alias(s, args[1], args[2])
      [] method = "parser_call_with" -> parser_call_with(s, args[1], args[2], args[3])
      [] method = "parser_type_args_expr" -> parser_type_args_expr(s, args[1])
      [] method = "parser_struct_new_loop" -> parser_struct_new_loop(s, args[1])
      [] method = "parser_struct_new" -> parser_struct_new(s, args[1])
      [] method = "parser_unary" -> parser_unary(s)
      [] method = "parser_catch_expr" -> parser_catch_expr(s, args[1])
      [] method = "parser_as_expr" -> parser_as_expr(s, args[1])
      [] method = "parser_match_is_expr" -> parser_match_is_expr(s)
      [] method = "parser_is_expr" -> parser_is_expr(s, args[1])
      [] method = "parser_expr_list" -> parser_expr_list(s, args[1])
      [] method = "parser_left_paren_expr" -> parser_left_paren_expr(s)
      [] method = "parser_literal" -> parser_literal(s)
      [] method = "parser_ident_expr" -> parser_ident_expr(s)
      [] method = "parser_access" -> parser_access(s, args[1])
      [] method = "parser_select" -> parser_select(s, args[1])
      [] method = "parser_args_loop" -> parser_args_loop(s, args[1], args[2])
      [] method = "parser_args" -> parser_args(s)
      [] method = "parser_call_expr" -> parser_call_expr(s, args[1])
      [] method = "parser_vec_new" -> parser_vec_new(s)
      [] method = "parser_map_loop" -> parser_map_loop(s, args[1])
      [] method = "parser_set_loop" -> parser_set_loop(s, args[1])
      [] method = "parser_left_curly_expr" -> parser_left_curly_expr(s)
      [] method = "parser_var_decl" -> parser_var_decl(s)
      [] method = "parser_params_loop" -> parser_params_loop(s, args[1], args[2])
      [] method = "parser_params" -> parser_params(s, args[1])
      [] method = "parser_fndef_expr" -> parser_fndef_expr(s)
      [] method = "parser_new_expr" -> parser_new_expr(s)
      [] method = "struct_param_scan" -> struct_param_scan(s, args[1])
      [] method = "is_struct_param_new_prefix" -> is_struct_param_new_prefix(s)
      [] method = "parser_is_struct_new_expr" -> parser_is_struct_new_expr(s)
      [] method = "parser_struct_new_expr" -> parser_struct_new_expr(s)
      [] method = "parser_macro_default_expr" -> parser_macro_default_expr(s)
      [] method = "parser_macro_sizeof" -> parser_macro_sizeof(s)
      [] method = "parser_macro_reflect_hash" -> parser_macro_reflect_hash(s)
      [] method = "coroutine_fn_closure" -> coroutine_fn_closure(s, args[1])
      [] method = "coroutine_fn_void_closure" -> coroutine_fn_void_closure(s, args[1])
      [] method = "parser_go_expr" -> parser_go_expr(s)
      [] method = "parser_macro_co_async_expr" -> parser_macro_co_async_expr(s)
      [] method = "parser_macro_ula_expr" -> parser_macro_ula_expr(s)
      [] method = "parser_macro_call" -> parser_macro_call(s)
      [] method = "match_cond_loop" -> match_cond_loop(s, args[1])
      [] method = "match_cases_loop" -> match_cases_loop(s, args[1], args[2])
      [] method = "parser_match_expr" -> parser_match_expr(s)
      [] method = "parser_expr" -> parser_expr(s)
      [] method = "CallPrefix" -> CallPrefix(s, args[1])
      [] method = "CallInfix" -> CallInfix(s, args[1], args[2])
      [] method = "body_loop" -> body_loop(s, args[1])
      [] method = "parser_body" -> parser_body(s)
      [] method = "parser_else_if" -> parser_else_if(s)
      [] method = "parser_if_stmt" -> parser_if_stmt(s)
      [] method = "for_tradition_scan" -> for_tradition_scan(s, args[1], args[2], args[3])
      [] method = "is_for_tradition_stmt" -> is_for_tradition_stmt(s)
      [] method = "tuple_typedecl_scan" -> tuple_typedecl_scan(s, args[1])
      [] method = "parser_is_tuple_typedecl" -> parser_is_tuple_typedecl(s)
      [] method = "is_type_begin_stmt" -> is_type_begin_stmt(s)
      [] method = "parser_for_stmt" -> parser_for_stmt(s)
      [] method = "parser_assign" -> parser_assign(s, args[1])
      [] method = "parser_expr_begin_stmt" -> parser_expr_begin_stmt(s)
      [] method = "parser_optional_expr" -> parser_optional_expr(s)
      [] method = "parser_break_stmt" -> parser_break_stmt(s)
      [] method = "parser_continue_stmt" -> parser_continue_stmt(s)
      [] method = "parser_return_stmt" -> parser_return_stmt(s)
      [] method = "import_package_loop" -> import_package_loop(s, args[1])
      [] method = "parser_import_stmt" -> parser_import_stmt(s)
      [] method = "tuple_destr_loop" -> tuple_destr_loop(s, args[1])
      [] method = "parser_tuple_destr" -> parser_tuple_destr(s)
      [] method = "var_tuple_destr_loop" -> var_tuple_destr_loop(s, args[1])
      [] method = "parser_var_tuple_destr" -> parser_var_tuple_destr(s)
      [] method = "parser_var_begin_stmt" -> parser_var_begin_stmt(s)
      [] method = "parser_type_begin_stmt" -> parser_type_begin_stmt(s)
      [] method = "impl_fn_scan" -> impl_fn_scan(s, args[1], args[2])
      [] method = "is_impl_fn" -> is_impl_fn(s)
      [] method = "generics_params_loop" -> generics_params_loop(s, args[1])
      [] method = "parser_generics_params" -> parser_generics_params(s)
      [] method = "impl_args_loop" -> impl_args_loop(s, args[1])
      [] method = "parser_fndef_impl" -> parser_fndef_impl(s, args[1])
      [] method = "parser_fndef_stmt" -> parser_fndef_stmt(s, args[1])
      [] method = "LoopBody" -> LoopBody(s)
      [] method = "parser_fndef_return" -> parser_fndef_return(s, args[1])
      [] method = "parser_fndef_name" -> parser_fndef_name(s, args[1], args[2])
      [] method = "parser_fndef_impl_type" -> parser_fndef_impl_type(s, args[1], args[2])
      [] method = "parser_fndef_expr_return" -> parser_fndef_expr_return(s, args[1])
      [] method = "fn_label_loop" -> fn_label_loop(s, args[1])
      [] method = "parser_fn_label" -> parser_fn_label(s)
      [] method = "parser_let_stmt" -> parser_let_stmt(s)
      [] method = "parser_throw_stmt" -> parser_throw_stmt(s)
      [] method = "parser_left_paren_begin_stmt" -> parser_left_paren_begin_stmt(s)
      [] method = "parser_type_alias_stmt" -> parser_type_alias_stmt(s)
      [] method = "parser_stmt_dispatch" -> parser_stmt_dispatch(s)
      [] method = "parser_stmt" -> parser_stmt(s)

----------------------------------------------------------------------------
(* Token streams given to Syntax::new *)

Ident(literal) == Tk("Ident", literal, 1)
IntLit(literal) == Tk("IntLiteral", literal, 1)
Kw(token_type) == Tk(token_type, token_type, 1)
Eof == Tk("Eof", "", 1)

\* every token of ts on source line ln
Line(ts, ln) == [i \in 1..Len(ts) |-> [ts[i] EXCEPT !.line = ln]]

\* if b == 24 {
\*     int a =
\* }
\*
\* int foo = 3                                         (tests/analyzer_test.rs, test_syntax)
TestSyntaxSource ==
    Line(<<Kw("If"), Ident("b"), Kw("EqualEqual"), IntLit("24"), Kw("LeftCurly")>>, 1)
    \o Line(<<Kw("Int"), Ident("a"), Kw("Equal")>>, 2)
    \o Line(<<Kw("RightCurly"), Kw("StmtEof")>>, 3)
    \o Line(<<Kw("Int"), Ident("foo"), Kw("Equal"), IntLit("3")>>, 5)
    \o Line(<<Eof>>, 6)

\* the same source with a statement end after the dangling `=`
TestSyntaxSourceStmtEof ==
    Line(<<Kw("If"), Ident("b"), Kw("EqualEqual"), IntLit("24"), Kw("LeftCurly")>>, 1)
    \o Line(<<Kw("Int"), Ident("a"), Kw("Equal"), Kw("StmtEof")>>, 2)
    \o Line(<<Kw("RightCurly"), Kw("StmtEof")>>, 3)
    \o Line(<<Kw("Int"), Ident("foo"), Kw("Equal"), IntLit("3")>>, 5)
    \o Line(<<Eof>>, 6)

\* x = a > > b
RightShiftSource ==
    <<Ident("x"), Kw("Equal"), Ident("a"), Kw("RightAngle"), Kw("RightAngle"), Ident("b"), Eof>>

\* x = a < b > c
LessGreaterSource ==
    <<Ident("x"), Kw("Equal"), Ident("a"), Kw("LeftAngle"), Ident("b"), Kw("RightAngle"),
      Ident("c"), Eof>>

\* x = a<int>(b)
GenericCallSource ==
    <<Ident("x"), Kw("Equal"), Ident("a"), Kw("LeftAngle"), Kw("Int"), Kw("RightAngle"),
      Kw("LeftParen"), Ident("b"), Kw("RightParen"), Eof>>

\* for int i = 0; 3 > i; i += 1 {
\* }
\* int x = 1
ForTraditionSource ==
    Line(<<Kw("For"), Kw("Int"), Ident("i"), Kw("Equal"), IntLit("0"), Kw("StmtEof"),
           IntLit("3"), Kw("RightAngle"), Ident("i"), Kw("StmtEof"),
           Ident("i"), Kw("PlusEqual"), IntLit("1"), Kw("LeftCurly")>>, 1)
    \o Line(<<Kw("RightCurly"), Kw("StmtEof")>>, 2)
    \o Line(<<Kw("Int"), Ident("x"), Kw("Equal"), IntLit("1"), Eof>>, 3)

\* for 20 > i { i = i + 1 }
ForCondOneLineSource ==
    <<Kw("For"), IntLit("20"), Kw("RightAngle"), Ident("i"), Kw("LeftCurly"),
      Ident("i"), Kw("Equal"), Ident("i"), Kw("Plus"), IntLit("1"), Kw("RightCurly"), Eof>>

\* for 20 > i {
\*     i = i + 1
\* }
ForCondSource ==
    Line(<<Kw("For"), IntLit("20"), Kw("RightAngle"), Ident("i"), Kw("LeftCurly")>>, 1)
    \o Line(<<Ident("i"), Kw("Equal"), Ident("i"), Kw("Plus"), IntLit("1"), Kw("StmtEof")>>, 2)
    \o Line(<<Kw("RightCurly"), Eof>>, 3)

\* [int] a = b
VecTypeSource ==
    <<Kw("LeftSquare"), Kw("Int"), Kw("RightSquare"), Ident("a"), Kw("Equal"), Ident("b"), Eof>>

\* if a { catch
UnclosedCatchSource == <<Kw("If"), Ident("a"), Kw("LeftCurly"), Kw("Catch"), Eof>>

\* declarations that begin with a type which is not a keyword:
\*   person a = 1        pkg.person a = 1        person<int> a = 1
\*   (int, int) a = b    fn(int) a = b
TypeBeginSources ==
    {<<Ident("person"), Ident("a"), Kw("Equal"), IntLit("1"), Eof>>,
     <<Ident("pkg"), Kw("Dot"), Ident("person"), Ident("a"), Kw("Equal"), IntLit("1"), Eof>>,
     <<Ident("person"), Kw("LeftAngle"), Kw("Int"), Kw("RightAngle"), Ident("a"), Kw("Equal"),
       IntLit("1"), Eof>>,
     <<Kw("LeftParen"), Kw("Int"), Kw("Comma"), Kw("Int"), Kw("RightParen"), Ident("a"),
       Kw("Equal"), Ident("b"), Eof>>,
     <<Kw("Fn"), Kw("LeftParen"), Kw("Int"), Kw("RightParen"), Ident("a"), Kw("Equal"),
       Ident("b"), Eof>>}

\* further sources, by name
Scenarios ==
    [\* match {
     \*     1 +
     \* }
     \* x = is int
     is_after_failed_arm |->
        Line(<<Kw("Match"), Kw("LeftCurly")>>, 1)
        \o Line(<<IntLit("1"), Kw("Plus")>>, 2)
        \o Line(<<Kw("RightCurly"), Kw("StmtEof")>>, 3)
        \o Line(<<Ident("x"), Kw("Equal"), Kw("Is"), Kw("Int"), Eof>>, 4),
     \* match { is int -> 1 }
     match_is_without_subject |->
        <<Kw("Match"), Kw("LeftCurly"), Kw("Is"), Kw("Int"), Kw("RightArrow"), IntLit("1"),
          Kw("RightCurly"), Eof>>,
     \* match { a | b -> 1 }
     match_or_without_subject |->
        <<Kw("Match"), Kw("LeftCurly"), Ident("a"), Kw("Or"), Ident("b"), Kw("RightArrow"),
          IntLit("1"), Kw("RightCurly"), Eof>>,
     \* for 10 > i <unknown character>
     \* }                                       (tests/analyzer_test.rs, test_lexer_utf8)
     for_without_body |->
        Line(<<Kw("For"), IntLit("10"), Kw("RightAngle"), Ident("i"), Kw("Unknown")>>, 1)
        \o Line(<<Kw("RightCurly"), Eof>>, 2),
     \* x = int
     \* int z = 3
     malformed_then_decl |->
        Line(<<Ident("x"), Kw("Equal"), Kw("Int"), Kw("StmtEof")>>, 1)
        \o Line(<<Kw("Int"), Ident("z"), Kw("Equal"), IntLit("3"), Eof>>, 2),
     \* int x = 1
     \* fn f<T>(T a): T?
     \* int y = 2
     template_fn |->
        Line(<<Kw("Int"), Ident("x"), Kw("Equal"), IntLit("1"), Kw("StmtEof")>>, 1)
        \o Line(<<Kw("Fn"), Ident("f"), Kw("LeftAngle"), Ident("T"), Kw("RightAngle"),
                  Kw("LeftParen"), Ident("T"), Ident("a"), Kw("RightParen"), Kw("Colon"),
                  Ident("T"), Kw("Question"), Kw("StmtEof")>>, 2)
        \o Line(<<Kw("Int"), Ident("y"), Kw("Equal"), IntLit("2"), Eof>>, 3),
     \* var f = fn<T>(T a, T b): T { return a }
     generic_fn_expr |-> <<Kw("Var"), Ident("f"), Kw("Equal"), Kw("Fn"), Kw("LeftAngle"), Ident("T"), Kw("RightAngle"), Kw("LeftParen"), Ident("T"), Ident("a"), Kw("Comma"), Ident("T"), Ident("b"), Kw("RightParen"), Kw("Colon"), Ident("T"), Kw("LeftCurly"), Kw("Return"), Ident("a"), Kw("RightCurly"), Eof>>,
     \* match x { 1 | 2 -> "low", is string -> "s" }
     match_arms_comma |-> <<Kw("Match"), Ident("x"), Kw("LeftCurly"), IntLit("1"), Kw("Or"), IntLit("2"), Kw("RightArrow"), Tk("StringLiteral", "low", 1), Kw("Comma"), Kw("Is"), Kw("String"), Kw("RightArrow"), Tk("StringLiteral", "s", 1), Kw("RightCurly"), Eof>>,
     \* match x {
     \*     1 | 2 -> "low"
     \*     is string -> "s"
     \* }
     match_arms_lines |-> Line(<<Kw("Match"), Ident("x"), Kw("LeftCurly")>>, 1) \o Line(<<IntLit("1"), Kw("Or"), IntLit("2"), Kw("RightArrow"), Tk("StringLiteral", "low", 1), Kw("StmtEof")>>, 2) \o Line(<<Kw("Is"), Kw("String"), Kw("RightArrow"), Tk("StringLiteral", "s", 1), Kw("StmtEof")>>, 3) \o Line(<<Kw("RightCurly"), Eof>>, 4),
     \* go f(1, 2)
     go_call |-> <<Kw("Go"), Ident("f"), Kw("LeftParen"), IntLit("1"), Kw("Comma"), IntLit("2"), Kw("RightParen"), Eof>>,
     \* go x
     \* int y = 1
     go_not_call |-> Line(<<Kw("Go"), Ident("x"), Kw("StmtEof")>>, 1) \o Line(<<Kw("Int"), Ident("y"), Kw("Equal"), IntLit("1"), Eof>>, 2),
     \* go x
     go_not_call_last |-> <<Kw("Go"), Ident("x"), Eof>>,
     \* vec<vec<i32>> a = b
     nested_vec |-> <<Kw("Vec"), Kw("LeftAngle"), Kw("Vec"), Kw("LeftAngle"), Kw("I32"), Kw("RightAngle"), Kw("RightAngle"), Ident("a"), Kw("Equal"), Ident("b"), Eof>>,
     \* f(a, ...b)
     spread_last |-> <<Ident("f"), Kw("LeftParen"), Ident("a"), Kw("Comma"), Kw("Ellipsis"), Ident("b"), Kw("RightParen"), Eof>>,
     \* f(...a, b)
     \* y = 1
     spread_not_last |-> Line(<<Ident("f"), Kw("LeftParen"), Kw("Ellipsis"), Ident("a"), Kw("Comma"), Ident("b"), Kw("RightParen"), Kw("StmtEof")>>, 1) \o Line(<<Ident("y"), Kw("Equal"), IntLit("1"), Eof>>, 2),
     \* fn f(int a, ...[int] b) {
     \* }
     rest_last |-> Line(<<Kw("Fn"), Ident("f"), Kw("LeftParen"), Kw("Int"), Ident("a"), Kw("Comma"), Kw("Ellipsis"), Kw("LeftSquare"), Kw("Int"), Kw("RightSquare"), Ident("b"), Kw("RightParen"), Kw("LeftCurly")>>, 1) \o Line(<<Kw("RightCurly"), Eof>>, 2),
     \* fn f(...[int] a, int b) {
     \* }
     \* y = 1
     rest_not_last |-> Line(<<Kw("Fn"), Ident("f"), Kw("LeftParen"), Kw("Ellipsis"), Kw("LeftSquare"), Kw("Int"), Kw("RightSquare"), Ident("a"), Kw("Comma"), Kw("Int"), Ident("b"), Kw("RightParen"), Kw("LeftCurly")>>, 1) \o Line(<<Kw("RightCurly"), Kw("StmtEof")>>, 2) \o Line(<<Ident("y"), Kw("Equal"), IntLit("1"), Eof>>, 3),
     \* any a = b
     any_type |-> <<Kw("Any"), Ident("a"), Kw("Equal"), Ident("b"), Eof>>,
     \* int? a = b
     nullable_type |-> <<Kw("Int"), Kw("Question"), Ident("a"), Kw("Equal"), Ident("b"), Eof>>,
     \* int|string|bool a = b
     union_type |-> <<Kw("Int"), Kw("Or"), Kw("String"), Kw("Or"), Kw("Bool"), Ident("a"), Kw("Equal"), Ident("b"), Eof>>,
     \* arr<int, 3> a = b
     arr_type |-> <<Kw("Arr"), Kw("LeftAngle"), Kw("Int"), Kw("Comma"), IntLit("3"), Kw("RightAngle"), Ident("a"), Kw("Equal"), Ident("b"), Eof>>,
     \* arr<int, 0> a = b
     \* y = 1
     arr_zero_type |-> Line(<<Kw("Arr"), Kw("LeftAngle"), Kw("Int"), Kw("Comma"), IntLit("0"), Kw("RightAngle"), Ident("a"), Kw("Equal"), Ident("b"), Kw("StmtEof")>>, 1) \o Line(<<Ident("y"), Kw("Equal"), IntLit("1"), Eof>>, 2),
     \* fn f<T>(T a): T
     \* fn g(T b) {
     \* }
     template_then_fn |-> Line(<<Kw("Fn"), Ident("f"), Kw("LeftAngle"), Ident("T"), Kw("RightAngle"), Kw("LeftParen"), Ident("T"), Ident("a"), Kw("RightParen"), Kw("Colon"), Ident("T"), Kw("StmtEof")>>, 1) \o Line(<<Kw("Fn"), Ident("g"), Kw("LeftParen"), Ident("T"), Ident("b"), Kw("RightParen"), Kw("LeftCurly")>>, 2) \o Line(<<Kw("RightCurly"), Eof>>, 3),
     \* if b == 24 { int a }
     \* int foo = 3
     block_must_hits_close |-> Line(<<Kw("If"), Ident("b"), Kw("EqualEqual"), IntLit("24"), Kw("LeftCurly"), Kw("Int"), Ident("a"), Kw("RightCurly"), Kw("StmtEof")>>, 1) \o Line(<<Kw("Int"), Ident("foo"), Kw("Equal"), IntLit("3"), Eof>>, 2),
     \* (fn() { int a = })()
     \* int y = 1
     paren_fn_body_error |-> Line(<<Kw("LeftParen"), Kw("Fn"), Kw("LeftParen"), Kw("RightParen"), Kw("LeftCurly"), Kw("Int"), Ident("a"), Kw("Equal"), Kw("RightCurly"), Kw("RightParen"), Kw("LeftParen"), Kw("RightParen"), Kw("StmtEof")>>, 1) \o Line(<<Kw("Int"), Ident("y"), Kw("Equal"), IntLit("1"), Eof>>, 2),
     \* x += y + 1
     PlusEqual |-> <<Ident("x"), Kw("PlusEqual"), Ident("y"), Kw("Plus"), IntLit("1"), Eof>>,
     \* x -= y + 1
     MinusEqual |-> <<Ident("x"), Kw("MinusEqual"), Ident("y"), Kw("Plus"), IntLit("1"), Eof>>,
     \* x *= y + 1
     StarEqual |-> <<Ident("x"), Kw("StarEqual"), Ident("y"), Kw("Plus"), IntLit("1"), Eof>>,
     \* x /= y + 1
     SlashEqual |-> <<Ident("x"), Kw("SlashEqual"), Ident("y"), Kw("Plus"), IntLit("1"), Eof>>,
     \* x %= y + 1
     PercentEqual |-> <<Ident("x"), Kw("PercentEqual"), Ident("y"), Kw("Plus"), IntLit("1"), Eof>>,
     \* x &= y + 1
     AndEqual |-> <<Ident("x"), Kw("AndEqual"), Ident("y"), Kw("Plus"), IntLit("1"), Eof>>,
     \* x |= y + 1
     OrEqual |-> <<Ident("x"), Kw("OrEqual"), Ident("y"), Kw("Plus"), IntLit("1"), Eof>>,
     \* x ^= y + 1
     XorEqual |-> <<Ident("x"), Kw("XorEqual"), Ident("y"), Kw("Plus"), IntLit("1"), Eof>>,
     \* x <<= y + 1
     LeftShiftEqual |-> <<Ident("x"), Kw("LeftShiftEqual"), Ident("y"), Kw("Plus"), IntLit("1"), Eof>>,
     \* x >>= y + 1
     RightShiftEqual |-> <<Ident("x"), Kw("RightShiftEqual"), Ident("y"), Kw("Plus"), IntLit("1"), Eof>>,
     \* f() = 1
     \* y = 1
     call_assign |-> Line(<<Ident("f"), Kw("LeftParen"), Kw("RightParen"), Kw("Equal"), IntLit("1"), Kw("StmtEof")>>, 1) \o Line(<<Ident("y"), Kw("Equal"), IntLit("1"), Eof>>, 2)]

\* the binary operators of the rule table, as the lexer delivers them: `<` is LeftAngle,
\* `>>` is two RightAngle
BinaryOperators ==
    {"OrOr", "AndAnd", "Or", "Xor", "And", "EqualEqual", "NotEqual", "LeftAngle", "RightAngle",
     "GreaterEqual", "LessEqual", "LeftShift", "RightShift", "Plus", "Minus", "Star", "Slash"}

OperatorTokens(op) ==
    IF op = "RightShift" THEN <<Kw("RightAngle"), Kw("RightAngle")>> ELSE <<Kw(op)>>

\* x = a op1 b op2 c
OperatorPairSource(op1, op2) ==
    <<Ident("x"), Kw("Equal"), Ident("a")>> \o OperatorTokens(op1) \o <<Ident("b")>>
    \o OperatorTokens(op2) \o <<Ident("c"), Eof>>

OperatorPairs == {OperatorPairSource(op1, op2) : op1 \in BinaryOperators, op2 \in BinaryOperators}

\* the tokens of the exhaustive family, all on one line
Alphabet ==
    {Ident("a"), IntLit("1"), Kw("Equal"), Kw("LeftAngle"), Kw("RightAngle"), Kw("Not"),
     Kw("Catch"), Kw("LeftCurly"), Kw("RightCurly"), Kw("If"), Kw("Int"), Kw("StmtEof")}

\* every stream of at most n tokens of the alphabet
RECURSIVE Streams(_)
Streams(n) ==
    IF n = 0 THEN {<<>>}
    ELSE LET shorter == Streams(n - 1) IN
         shorter \cup {Append(ts, t) : ts \in shorter, t \in Alphabet}

\* each stream ends with exactly one Eof
Inputs ==
    {Lex(ts) : ts \in
        {TestSyntaxSource, TestSyntaxSourceStmtEof, RightShiftSource, LessGreaterSource,
         GenericCallSource, ForTraditionSource, ForCondOneLineSource, ForCondSource,
         VecTypeSource, UnclosedCatchSource} \cup TypeBeginSources \cup OperatorPairs
        \cup {Scenarios[n] : n \in DOMAIN Scenarios}}
    \cup {Lex(Append(ts, Eof)) : ts \in Streams(MaxLen)}

----------------------------------------------------------------------------
(* Syntax::new and the driver loop of Syntax::parser *)

\* the fields of self as a parser state
Self == SyntaxState(current, errors, type_params_table, match_cond, match_subject)

\* the fields of self after the call that ended in state s
Install(s) ==
    /\ current' = s.current
    /\ errors' = s.errors
    /\ type_params_table' = s.type_params_table
    /\ match_cond' = s.match_cond
    /\ match_subject' = s.match_subject

\* a Syntax that is not fresh: its diagnostic list holds an entry of an earlier use
InitUsed ==
    /\ tokens \in Inputs
    /\ current = 0
    /\ errors = <<AnalyzerError(SyntaxError(0, 0, "earlier", ""))>>
    /\ type_params_table = {}
    /\ match_cond = FALSE
    /\ match_subject = FALSE
    /\ stmt_list = <<>>
    /\ result = [stmts |-> <<>>, errors |-> <<>>]
    /\ pc = "idle"
    /\ calls = 0
    /\ iterations = 0
    /\ iter_start = 0
    /\ panic_message = ""

\* Syntax::new(tokens)
Init ==
    /\ tokens \in Inputs
    /\ current = 0
    /\ errors = <<>>
    /\ type_params_table = {}
    /\ match_cond = FALSE
    /\ match_subject = FALSE
    /\ stmt_list = <<>>
    /\ result = [stmts |-> <<>>, errors |-> <<>>]
    /\ pc = "idle"
    /\ calls = 0
    /\ iterations = 0
    /\ iter_start = 0
    /\ panic_message = ""

\* self.current = 0; let mut stmt_list = Vec::new()
ParserEntry ==
    /\ pc \in {"idle", "done"}
    /\ calls < MaxCalls
    /\ current' = 0
    /\ stmt_list' = <<>>
    /\ pc' = "loop"
    /\ calls' = calls + 1
    /\ iterations' = 0
    /\ iter_start' = 0
    /\ UNCHANGED <<tokens, errors, type_params_table, match_cond, match_subject, result,
                   panic_message>>

\* the loop is entered: while !self.is(Eof)
InLoop ==
    /\ pc = "loop"
    /\ InRange(Self)
    /\ ~is(Self, "Eof")
    /\ iterations < Len(tokens) + MaxExtraIters

\* the end of an iteration whose body ended as b: one that panics or never returns ends
\* the call; the others count as an iteration started at the present cursor
EndIteration(b) ==
    /\ Install(b.s)
    /\ stmt_list' = IF b.kind = "ok" THEN Append(stmt_list, b.s.val) ELSE stmt_list
    /\ pc' = IF b.kind \in {"panic", "diverge"} THEN b.kind ELSE pc
    /\ panic_message' = IF b.kind = "panic" THEN b.s.err.message ELSE panic_message
    /\ iterations' = IF b.kind \in {"panic", "diverge"} THEN iterations ELSE iterations + 1
    /\ iter_start' = IF b.kind \in {"panic", "diverge"} THEN iter_start ELSE current

\* one iteration of `while !self.is(Eof) { .. }`
ParserIteration ==
    /\ InLoop
    /\ EndIteration(Call("LoopBody", Self, <<>>))
    /\ UNCHANGED <<tokens, result, calls>>

\* `while !self.is(Eof)` with the cursor past the last token: peek panics
LoopPanic ==
    /\ pc = "loop"
    /\ ~InRange(Self)
    /\ pc' = "panic"
    /\ panic_message' = Peek(Self, Self).err.message
    /\ UNCHANGED <<tokens, current, errors, type_params_table, match_cond, match_subject,
                   stmt_list, result, calls, iterations, iter_start>>

\* the loop ends at Eof: return (stmt_list, self.errors.clone())
ParserReturn ==
    /\ pc = "loop"
    /\ InRange(Self)
    /\ is(Self, "Eof")
    /\ result' = [stmts |-> stmt_list, errors |-> errors]
    /\ pc' = "done"
    /\ UNCHANGED <<tokens, current, errors, type_params_table, match_cond, match_subject,
                   stmt_list, calls, iterations, iter_start, panic_message>>

Next ==
    \/ ParserEntry
    \/ ParserIteration
    \/ LoopPanic
    \/ ParserReturn

Spec == Init /\ [][Next]_vars

----------------------------------------------------------------------------
(* Syntax::parser as a function of the instance it is called on *)

\* the loop of Syntax::parser run to its end from state s with stmt_list collected so
\* far, n iterations done; st: "done" with what parser() returns, "panic", "diverge",
\* or "stopped" where the model stops following the loop
RECURSIVE parser_loop(_, _, _)
parser_loop(s, stmts, n) ==
    IF ~InRange(s) THEN [st |-> "panic", stmts |-> <<>>, errors |-> <<>>]
    ELSE IF is(s, "Eof") THEN [st |-> "done", stmts |-> stmts, errors |-> s.errors]
    ELSE IF ~(n < Len(tokens) + MaxExtraIters) THEN [st |-> "stopped", stmts |-> <<>>, errors |-> <<>>]
    ELSE
        LET b == Call("LoopBody", s, <<>>) IN
        IF b.kind \in {"panic", "diverge"} THEN [st |-> b.kind, stmts |-> <<>>, errors |-> <<>>]
        ELSE parser_loop(SyntaxState(b.s.current, b.s.errors, b.s.type_params_table,
                                     b.s.match_cond, b.s.match_subject),
                         IF b.kind = "ok" THEN Append(stmts, b.s.val) ELSE stmts, n + 1)

\* Syntax::new(tokens).parser() on a second instance built from the same token vector
parser ==
    parser_loop(SyntaxState(0, <<>>, {}, FALSE, FALSE), <<>>, 0)

----------------------------------------------------------------------------
(* Properties of parser(), stated over the driver's state *)

\* the tree of an expression or statement without its source positions
RECURSIVE Shape(_)
Shape(e) ==
    CASE e.node = "Ident" -> <<"Ident", e.ident>>
      [] e.node = "Literal" -> <<"Literal", e.kind, e.literal>>
      [] e.node = "Binary" -> <<"Binary", e.op, Shape(e.left), Shape(e.right)>>
      [] e.node = "Assign" -> <<"Assign", Shape(e.left), Shape(e.right)>>
      [] OTHER -> <<e.node>>

\* In the properties below, pc \notin {"panic", "diverge"} says that the call has neither
\* panicked nor entered a loop it never leaves, and pc = "done" /\ calls = 1 that the
\* first parser() call on a fresh Syntax has returned (self.errors is never cleared, so
\* a later call also returns the diagnostics of the earlier ones).

\* C1: parser() terminates within |tokens| iterations of the driver loop, and no
\* iteration of the driver loop ends with the cursor where the iteration started.
C1_DriverProgress ==
    /\ pc # "diverge"
    /\ iterations <= Len(tokens)
    /\ (pc = "loop" /\ iterations > 0) => current # iter_start

\* C2: during parser() the cursor never moves past the Eof token, so peek never
\* panics with "current index out of range".
C2_CursorWithinStream ==
    /\ current < Len(tokens)
    /\ panic_message # "syntax::peek: current index out of range"

\* C3: apart from peek past Eof, no panic or failed assertion inside the parser is
\* reachable: every failure is an entry of the diagnostic list.
C3_NoInternalPanic ==
    /\ pc # "diverge"
    /\ pc = "panic" => panic_message = "syntax::peek: current index out of range"

\* C4: on `if b == 24 { int a = }` followed by `int foo = 3`, the first parser() call
\* returns exactly one diagnostic, located in the if-body, still emits the If
\* statement, and ends the statement list with the VarDef `int foo = 3`.
C4_BlockFailureRecordedOnce ==
    tokens \in {Lex(TestSyntaxSource), Lex(TestSyntaxSourceStmtEof)} =>
        /\ pc \notin {"panic", "diverge"}
        /\ (pc = "done" /\ calls = 1) =>
            /\ Len(result.errors) = 1
            /\ result.errors[1].message = "<expr> expected, found"
            /\ result.errors[1].start > tokens[5].start
            /\ result.errors[1].start < tokens[Len(tokens) - 4].start
            /\ Len(result.stmts) = 2
            /\ result.stmts[1].node = "If"
            /\ Shape(result.stmts[1].condition)
                 = <<"Binary", "Ee", <<"Ident", "b">>, <<"Literal", "Int", "24">>>>
            /\ result.stmts[2].node = "VarDef"
            /\ result.stmts[2].var_decl.ident = "foo"
            /\ result.stmts[2].var_decl.type_.kind = "Int"
            /\ Shape(result.stmts[2].right) = <<"Literal", "Int", "3">>

\* the test_syntax source has been parsed to the end: one diagnostic, two statements
C4_Witness ==
    /\ tokens = Lex(TestSyntaxSource)
    /\ pc = "done"
    /\ calls = 1
    /\ Len(result.errors) = 1
    /\ Len(result.stmts) = 2

\* C5: `x = a >> b` parses without diagnostics into the assignment of
\* Binary(Rshift, a, b).
C5_RightShiftCollapsed ==
    tokens = Lex(RightShiftSource) =>
        /\ pc \notin {"panic", "diverge"}
        /\ (pc = "done" /\ calls = 1) =>
            /\ result.errors = <<>>
            /\ Len(result.stmts) = 1
            /\ Shape(result.stmts[1])
                 = <<"Assign", <<"Ident", "x">>,
                     <<"Binary", "Rshift", <<"Ident", "a">>, <<"Ident", "b">>>>>>

\* C6: in `x = a < b > c` the `>` that closes the single type argument is followed by
\* neither `(` nor `{`, so the cursor is restored and `<` is the less-than operator:
\* the statement parses without diagnostics into (a < b) > c.
C6_LessThanRestored ==
    tokens = Lex(LessGreaterSource) =>
        /\ pc \notin {"panic", "diverge"}
        /\ (pc = "done" /\ calls = 1) =>
            /\ result.errors = <<>>
            /\ Len(result.stmts) = 1
            /\ Shape(result.stmts[1])
                 = <<"Assign", <<"Ident", "x">>,
                     <<"Binary", "Gt",
                       <<"Binary", "Lt", <<"Ident", "a">>, <<"Ident", "b">>>>,
                       <<"Ident", "c">>>>>>

\* the tree of `a op1 b op2 c` by precedence, left-associative at equal precedence;
\* InfixToken is the infix token an operator of the source text stands for
PrecedenceTree(op1, op2) ==
    LET InfixToken(op) == IF op = "LeftAngle" THEN "LessThan" ELSE op
        p1 == find_rule(InfixToken(op1)).infix_precedence
        p2 == find_rule(InfixToken(op2)).infix_precedence
        o1 == token_to_expr_op(InfixToken(op1))
        o2 == token_to_expr_op(InfixToken(op2))
        a == <<"Ident", "a">>
        b == <<"Ident", "b">>
        c == <<"Ident", "c">>
    IN  IF p1 >= p2 THEN <<"Binary", o2, <<"Binary", o1, a, b>>, c>>
        ELSE <<"Binary", o1, a, <<"Binary", o2, b, c>>>>

\* C7: for all binary operators op1, op2 of the rule table, `x = a op1 b op2 c` parses
\* without diagnostics, as (a op1 b) op2 c when precedence(op1) >= precedence(op2) and
\* as a op1 (b op2 c) otherwise.
C7_PrecedenceAndAssociativity ==
    tokens \in {Lex(ts) : ts \in OperatorPairs} =>
        \A op1, op2 \in BinaryOperators :
            tokens = Lex(OperatorPairSource(op1, op2)) =>
                /\ pc \notin {"panic", "diverge"}
                /\ (pc = "done" /\ calls = 1) =>
                    /\ result.errors = <<>>
                    /\ Len(result.stmts) = 1
                    /\ Shape(result.stmts[1])
                         = <<"Assign", <<"Ident", "x">>, PrecedenceTree(op1, op2)>>

\* C8: a for statement with two top-level StmtEof on its line parses without
\* diagnostics into one ForTradition statement; the statement after it is parsed too.
C8_ForTradition ==
    tokens = Lex(ForTraditionSource) =>
        /\ pc \notin {"panic", "diverge"}
        /\ errors = <<>>
        /\ (pc = "done" /\ calls = 1) =>
            /\ Len(result.stmts) = 2
            /\ result.stmts[1].node = "ForTradition"
            /\ result.stmts[1].init.node = "VarDef"
            /\ Shape(result.stmts[1].cond)
                 = <<"Binary", "Gt", <<"Literal", "Int", "3">>, <<"Ident", "i">>>>
            /\ result.stmts[1].update.node = "Assign"
            /\ result.stmts[1].body = <<>>
            /\ result.stmts[2].node = "VarDef"

\* C9: `for 20 > i { i = i + 1 }` on one line, followed by Eof, yields no diagnostic
\* and exactly one ForCond statement with condition 20 > i and body i = i + 1.
C9_ForCondOneLine ==
    tokens = Lex(ForCondOneLineSource) =>
        /\ pc \notin {"panic", "diverge"}
        /\ errors = <<>>
        /\ (pc = "done" /\ calls = 1) =>
            /\ Len(result.stmts) = 1
            /\ result.stmts[1].node = "ForCond"
            /\ Shape(result.stmts[1].condition)
                 = <<"Binary", "Gt", <<"Literal", "Int", "20">>, <<"Ident", "i">>>>
            /\ Len(result.stmts[1].body) = 1
            /\ Shape(result.stmts[1].body[1])
                 = <<"Assign", <<"Ident", "i">>,
                     <<"Binary", "Add", <<"Ident", "i">>, <<"Literal", "Int", "1">>>>>>

\* C10: each statement that starts with a type (`person a = 1`, `pkg.person a = 1`,
\* `person<int> a = 1`, `(int, int) a = b`, `fn(int) a = b`) parses without
\* diagnostics into one VarDef of `a`.
C10_TypeBeginVarDef ==
    tokens \in {Lex(ts) : ts \in TypeBeginSources} =>
        /\ pc \notin {"panic", "diverge"}
        /\ errors = <<>>
        /\ (pc = "done" /\ calls = 1) =>
            /\ Len(result.stmts) = 1
            /\ result.stmts[1].node = "VarDef"
            /\ result.stmts[1].var_decl.ident = "a"

\* C11: a prefix `is T` is accepted only while the condition of a match arm is being
\* parsed: between two statements of the driver loop no arm condition is open, and
\* `x = is int` after a match expression that failed inside an arm condition is
\* rejected with 'is type must be specified in the match expression'.
C11_IsOnlyInMatchCondition ==
    /\ pc \in {"loop", "done"} => ~match_cond
    /\ tokens = Lex(Scenarios.is_after_failed_arm) =>
        /\ pc \notin {"panic", "diverge"}
        /\ (pc = "done" /\ calls = 1) =>
            /\ \E i \in 1..Len(result.errors) :
                 result.errors[i].message = "is type must be specified in the match expression"
            /\ \A i \in 1..Len(result.stmts) :
                 result.stmts[i].node = "Assign" => result.stmts[i].right.node # "MatchIs"

\* C12: in a match without a subject each arm has exactly one condition
\* (`match { a | b -> 1 }` has the single condition a | b), and a bare `is T` as the
\* condition (`match { is int -> 1 }`) is rejected with a diagnostic.
C12_MatchWithoutSubject ==
    /\ tokens = Lex(Scenarios.match_or_without_subject) =>
        /\ pc \notin {"panic", "diverge"}
        /\ (pc = "done" /\ calls = 1) =>
            /\ result.errors = <<>>
            /\ Len(result.stmts) = 1
            /\ result.stmts[1].expr.node = "Match"
            /\ result.stmts[1].expr.subject = Nil
            /\ Len(result.stmts[1].expr.cases) = 1
            /\ Len(result.stmts[1].expr.cases[1].cond_list) = 1
    /\ tokens = Lex(Scenarios.match_is_without_subject) =>
        /\ pc \notin {"panic", "diverge"}
        /\ (pc = "done" /\ calls = 1) =>
            /\ result.errors # <<>>
            /\ result.stmts = <<>>

C14_OneDiagnosticPerStatement ==
    /\ tokens = Lex(Scenarios.for_without_body) =>
        /\ pc \notin {"panic", "diverge"}
        /\ Len(errors) <= 1
        /\ (pc = "done" /\ calls = 1) => Len(result.errors) = 1
    /\ tokens = Lex(Scenarios.malformed_then_decl) =>
        /\ pc \notin {"panic", "diverge"}
        /\ Len(errors) <= 1
        /\ (pc = "done" /\ calls = 1) =>
            /\ Len(result.errors) = 1
            /\ Len(result.stmts) = 1
            /\ result.stmts[1].node = "VarDef"

\* start <= end for a node or type x
WellFormedSpan(x) == x.start <= x.end

\* C15: every Stmt, function definition and Type the parser produces has
\* start <= end: every top-level statement, and in the body-less template function
\* `fn f<T>(T a): T?` the function definition, the Param type of its parameter, its
\* return type T? and the Param and Null members of that union.
C15_StartBeforeEnd ==
    /\ \A i \in 1..Len(stmt_list) : WellFormedSpan(stmt_list[i])
    /\ tokens = Lex(Scenarios.template_fn) =>
        /\ pc \notin {"panic", "diverge"}
        /\ (pc = "done" /\ calls = 1) =>
            /\ result.errors = <<>>
            /\ Len(result.stmts) = 3
            /\ result.stmts[2].node = "FnDef"
            /\ result.stmts[2].fndef.is_tpl
            /\ WellFormedSpan(result.stmts[2].fndef)
            /\ result.stmts[2].fndef.params[1].type_.kind = "Param"
            /\ WellFormedSpan(result.stmts[2].fndef.params[1].type_)
            /\ WellFormedSpan(result.stmts[2].fndef.return_type)
            /\ \A j \in 1..Len(result.stmts[2].fndef.return_type.elems) :
                 WellFormedSpan(result.stmts[2].fndef.return_type.elems[j])

\* the span of child lies within the span of parent
Nests(parent, child) == parent.start <= child.start /\ child.end <= parent.end

\* C16: spans nest along every parent/child edge: in `x = a + b * c` the assignment
\* spans its target and its value, and each Binary spans its left and right operand.
C16_SpansNest ==
    tokens = Lex(OperatorPairSource("Plus", "Star")) =>
        /\ pc \notin {"panic", "diverge"}
        /\ (pc = "done" /\ calls = 1) =>
            /\ result.errors = <<>>
            /\ Len(result.stmts) = 1
            /\ result.stmts[1].node = "Assign"
            /\ Nests(result.stmts[1], result.stmts[1].left)
            /\ Nests(result.stmts[1], result.stmts[1].right)
            /\ result.stmts[1].right.node = "Binary"
            /\ Nests(result.stmts[1].right, result.stmts[1].right.left)
            /\ Nests(result.stmts[1].right, result.stmts[1].right.right)
            /\ Nests(result.stmts[1].right.right, result.stmts[1].right.right.left)
            /\ Nests(result.stmts[1].right.right, result.stmts[1].right.right.right)


\* C17: `fn<T>(T a, T b): T { return a }` in expression position (here the value of
\* `var f = ...`) parses without diagnostics to a FnDef with the one generic parameter T,
\* two parameters of type Param("T") and the return type Param("T").
C17_GenericFnExpr ==
    tokens = Lex(Scenarios.generic_fn_expr) =>
        /\ pc \notin {"panic", "diverge"}
        /\ (pc \in {"loop", "done"}) => errors = <<>>
        /\ (pc = "done" /\ calls = 1) =>
            /\ result.errors = <<>>
            /\ Len(result.stmts) = 1
            /\ result.stmts[1].node = "VarDef"
            /\ result.stmts[1].right.node = "FnDef"
            /\ LET fndef == result.stmts[1].right.fndef IN
                /\ Len(fndef.generics_params) = 1
                /\ fndef.generics_params[1].ident = "T"
                /\ Len(fndef.params) = 2
                /\ \A i \in 1..2 : /\ fndef.params[i].type_.kind = "Param"
                                   /\ fndef.params[i].type_.ident = "T"
                /\ fndef.return_type.kind = "Param"
                /\ fndef.return_type.ident = "T"


\* what C18 says of the result of `match x` with the arms `1 | 2` and `is string`
MatchArmsParsed ==
    /\ result.errors = <<>>
    /\ Len(result.stmts) = 1
    /\ result.stmts[1].expr.node = "Match"
    /\ Shape(result.stmts[1].expr.subject) = <<"Ident", "x">>
    /\ LET cases == result.stmts[1].expr.cases IN
        /\ Len(cases) = 2
        /\ Len(cases[1].cond_list) = 2
        /\ Shape(cases[1].cond_list[1]) = <<"Literal", "Int", "1">>
        /\ Shape(cases[1].cond_list[2]) = <<"Literal", "Int", "2">>
        /\ Shape(cases[1].handle_expr) = <<"Literal", "String", "low">>
        /\ Len(cases[2].cond_list) = 1
        /\ cases[2].cond_list[1].node = "MatchIs"
        /\ cases[2].cond_list[1].target_type.kind = "String"
        /\ Shape(cases[2].handle_expr) = <<"Literal", "String", "s">>

\* C18 as stated: the arms of `match x { 1 | 2 -> "low", is string -> "s" }`, written
\* on one line with a comma between them, give a Match with subject x and two arms, the
\* first with the conditions 1 and 2 in source order and the second with the single
\* condition MatchIs(String), and no diagnostic.
C18_MatchArmsWithComma ==
    tokens = Lex(Scenarios.match_arms_comma) =>
        /\ pc \notin {"panic", "diverge"}
        /\ pc \in {"loop", "done"} => errors = <<>>
        /\ (pc = "done" /\ calls = 1) => MatchArmsParsed

\* C18, amended: when each arm ends with a statement terminator (the arms are on lines
\* of their own) the match with subject x parses without diagnostic, never panics, and
\* gives two arms: the first with exactly the conditions 1 and 2 in source order, the
\* second with the single condition MatchIs(String).
C18_MatchArms ==
    tokens = Lex(Scenarios.match_arms_lines) =>
        /\ pc \notin {"panic", "diverge"}
        /\ pc \in {"loop", "done"} => errors = <<>>
        /\ (pc = "done" /\ calls = 1) => MatchArmsParsed

\* the match on lines was parsed to the end and gave its two arms
C18_Witness ==
    /\ tokens = Lex(Scenarios.match_arms_lines)
    /\ pc = "done"
    /\ calls = 1
    /\ MatchArmsParsed
    /\ ~match_cond


\* e is the call f(1, 2)
IsCallF12(e) ==
    /\ e.node = "Call"
    /\ Shape(e.left) = <<"Ident", "f">>
    /\ Len(e.args) = 2
    /\ Shape(e.args[1]) = <<"Literal", "Int", "1">>
    /\ Shape(e.args[2]) = <<"Literal", "Int", "2">>

\* C19: `go f(1, 2)` as a statement yields one statement wrapping a MacroCoAsync whose
\* origin_call is the call f(1, 2), whose closure_fn has no parameters and the body
\* [VarDef result = f(1, 2), Call co_return(&result)], and whose closure_fn_void has
\* the call as its whole body; `go x`, where x is not a call, yields the one diagnostic
\* 'go expr must be call' and no statement for it, both when another statement follows
\* (the call returns the diagnostic) and when `go x` is the last statement (the driver
\* has recorded it when its iteration ends).
C19_GoRequiresCall ==
    /\ tokens = Lex(Scenarios.go_call) =>
        /\ pc \notin {"panic", "diverge"}
        /\ (pc = "done" /\ calls = 1) =>
            /\ result.errors = <<>>
            /\ Len(result.stmts) = 1
            /\ result.stmts[1].expr.node = "MacroCoAsync"
            /\ LET co == result.stmts[1].expr IN
                /\ IsCallF12(co.origin_call)
                /\ co.closure_fn.params = <<>>
                /\ Len(co.closure_fn.body) = 2
                /\ co.closure_fn.body[1].node = "VarDef"
                /\ co.closure_fn.body[1].var_decl.ident = "result"
                /\ IsCallF12(co.closure_fn.body[1].right)
                /\ co.closure_fn.body[2].node = "Call"
                /\ Shape(co.closure_fn.body[2].left) = <<"Ident", "co_return">>
                /\ Len(co.closure_fn.body[2].args) = 1
                /\ co.closure_fn.body[2].args[1].node = "Unary"
                /\ co.closure_fn.body[2].args[1].op = "La"
                /\ Shape(co.closure_fn.body[2].args[1].operand) = <<"Ident", "result">>
                /\ Len(co.closure_fn_void.body) = 1
                /\ IsCallF12(co.closure_fn_void.body[1])
    /\ tokens = Lex(Scenarios.go_not_call) =>
        /\ pc \notin {"panic", "diverge"}
        /\ (pc = "done" /\ calls = 1) =>
            /\ Len(result.errors) = 1
            /\ result.errors[1].message = "go expr must be call"
            /\ Len(result.stmts) = 1
            /\ result.stmts[1].node = "VarDef"
    /\ (tokens = Lex(Scenarios.go_not_call_last) /\ calls = 1 /\ iterations >= 1) =>
        /\ Len(errors) = 1
        /\ errors[1].message = "go expr must be call"
        /\ stmt_list = <<>>

\* `go f(1, 2)` has been parsed into its MacroCoAsync with both closures
C19_Witness ==
    /\ tokens = Lex(Scenarios.go_call)
    /\ pc = "done"
    /\ calls = 1
    /\ result.errors = <<>>
    /\ Len(result.stmts) = 1
    /\ result.stmts[1].expr.node = "MacroCoAsync"
    /\ Len(result.stmts[1].expr.closure_fn.body) = 2
    /\ Len(result.stmts[1].expr.closure_fn_void.body) = 1


\* C20: in type position nested generic brackets are closed one `>` at a time: the type
\* of `vec<vec<i32>> a = b` parses to Vec(Vec(Int32)) with no diagnostic, the inner vec
\* ends at the first `>` (token 6) and the outer vec at the second (token 7), so each
\* type consumed exactly its own closing token, and the declared name is the token
\* right after the second `>`.
C20_NestedAngleClose ==
    tokens = Lex(Scenarios.nested_vec) =>
        /\ pc \notin {"panic", "diverge"}
        /\ pc \in {"loop", "done"} => errors = <<>>
        /\ (pc = "done" /\ calls = 1) =>
            /\ result.errors = <<>>
            /\ Len(result.stmts) = 1
            /\ result.stmts[1].node = "VarDef"
            /\ result.stmts[1].var_decl.ident = "a"
            /\ result.stmts[1].var_decl.symbol_start = tokens[8].start
            /\ Shape(result.stmts[1].right) = <<"Ident", "b">>
            /\ LET outer == result.stmts[1].var_decl.type_ IN
                /\ outer.kind = "Vec"
                /\ Len(outer.elems) = 1
                /\ outer.start = tokens[1].start
                /\ outer.end = tokens[7].end
                /\ outer.elems[1].kind = "Vec"
                /\ Len(outer.elems[1].elems) = 1
                /\ outer.elems[1].start = tokens[3].start
                /\ outer.elems[1].end = tokens[6].end
                /\ outer.elems[1].elems[1].kind = "Int32"
                /\ outer.elems[1].elems[1].elems = <<>>

\* the declaration of a with the nested vec type has been parsed to the end
C20_Witness ==
    /\ tokens = Lex(Scenarios.nested_vec)
    /\ pc = "done"
    /\ calls = 1
    /\ result.errors = <<>>
    /\ Len(result.stmts) = 1
    /\ result.stmts[1].var_decl.type_.kind = "Vec"
    /\ result.stmts[1].var_decl.type_.elems[1].kind = "Vec"


\* the first diagnostic of the returned list is the one about '...' and it is located
\* at token number at
EllipsisRefusedAt(at) ==
    /\ result.errors # <<>>
    /\ result.errors[1].message = "can only use '...' as the final argument in the list"
    /\ result.errors[1].start = tokens[at].start
    /\ result.errors[1].end = tokens[at].end

\* C21: a spread argument and a rest parameter are accepted only in last position:
\* `f(a, ...b)` gives a call with spread set and the arguments a, b, and
\* `fn f(int a, ...[int] b) {}` a function with rest_param set and b as last parameter;
\* `f(...a, b)` and `fn f(...[int] a, int b) {}` give the diagnostic "can only use
\* '...' as the final argument in the list" at the token after the `...` item, and
\* neither the call nor the function is produced.
C21_EllipsisLast ==
    /\ tokens = Lex(Scenarios.spread_last) =>
        /\ pc \notin {"panic", "diverge"}
        /\ (pc = "done" /\ calls = 1) =>
            /\ result.errors = <<>>
            /\ Len(result.stmts) = 1
            /\ result.stmts[1].node = "Call"
            /\ result.stmts[1].spread
            /\ Len(result.stmts[1].args) = 2
            /\ Shape(result.stmts[1].args[2]) = <<"Ident", "b">>
    /\ tokens = Lex(Scenarios.spread_not_last) =>
        /\ pc \notin {"panic", "diverge"}
        /\ (pc = "done" /\ calls = 1) =>
            /\ EllipsisRefusedAt(5)
            /\ \A i \in 1..Len(result.stmts) : result.stmts[i].node # "Call"
    /\ tokens = Lex(Scenarios.rest_last) =>
        /\ pc \notin {"panic", "diverge"}
        /\ (pc = "done" /\ calls = 1) =>
            /\ result.errors = <<>>
            /\ Len(result.stmts) = 1
            /\ result.stmts[1].node = "FnDef"
            /\ result.stmts[1].fndef.rest_param
            /\ Len(result.stmts[1].fndef.params) = 2
            /\ result.stmts[1].fndef.params[2].ident = "b"
            /\ result.stmts[1].fndef.params[2].type_.kind = "Vec"
    /\ tokens = Lex(Scenarios.rest_not_last) =>
        /\ pc \notin {"panic", "diverge"}
        /\ (pc = "done" /\ calls = 1) =>
            /\ EllipsisRefusedAt(9)
            /\ \A i \in 1..Len(result.stmts) : result.stmts[i].node # "FnDef"

\* `f(...a, b)` has been parsed to the end and refused at the comma
C21_Witness ==
    /\ tokens = Lex(Scenarios.spread_not_last)
    /\ pc = "done"
    /\ calls = 1
    /\ EllipsisRefusedAt(5)
    /\ Len(result.stmts) = 1


\* a Union with the any flag has no variants, an Arr has a positive length, and so
\* for the types nested in t
RECURSIVE TypeWellFormed(_)
TypeWellFormed(t) ==
    /\ (t.kind = "Union" /\ t.is_any) => t.elems = <<>>
    /\ t.kind = "Arr" => t.len > 0
    /\ \A i \in 1..Len(t.elems) : TypeWellFormed(t.elems[i])

\* the kinds of the member types of t, in order
ElemKinds(t) == [i \in 1..Len(t.elems) |-> t.elems[i].kind]

\* C22: the types the type parser returns are well-formed. The declared type of every
\* VarDef the driver has collected, and every type nested in it, is no any-Union with
\* variants and no Arr of length 0; `any` gives Union(true, []), `int?` gives
\* Union(false, [Int, Null]), `int|string|bool` gives Union(false, [Int, String, Bool])
\* in source order, `arr<int, 3>` gives Arr(3, Int), and `arr<int, 0>` is refused with
\* 'array length must be greater than 0' at the literal and declares nothing.
C22_TypesWellFormed ==
    /\ \A i \in 1..Len(stmt_list) :
           stmt_list[i].node = "VarDef" => TypeWellFormed(stmt_list[i].var_decl.type_)
    /\ tokens \in {Lex(Scenarios.any_type), Lex(Scenarios.nullable_type),
                   Lex(Scenarios.union_type), Lex(Scenarios.arr_type)} =>
        /\ pc \notin {"panic", "diverge"}
        /\ (pc = "done" /\ calls = 1) =>
            /\ result.errors = <<>>
            /\ Len(result.stmts) = 1
            /\ result.stmts[1].node = "VarDef"
            /\ LET t == result.stmts[1].var_decl.type_ IN
                /\ tokens = Lex(Scenarios.any_type) =>
                    t.kind = "Union" /\ t.is_any /\ t.elems = <<>>
                /\ tokens = Lex(Scenarios.nullable_type) =>
                    t.kind = "Union" /\ ~t.is_any /\ ElemKinds(t) = <<"Int", "Null">>
                /\ tokens = Lex(Scenarios.union_type) =>
                    t.kind = "Union" /\ ~t.is_any /\ ElemKinds(t) = <<"Int", "String", "Bool">>
                /\ tokens = Lex(Scenarios.arr_type) =>
                    t.kind = "Arr" /\ t.len = 3 /\ ElemKinds(t) = <<"Int">>
    /\ tokens = Lex(Scenarios.arr_zero_type) =>
        /\ pc \notin {"panic", "diverge"}
        /\ (pc = "done" /\ calls = 1) =>
            /\ Len(result.errors) = 1
            /\ result.errors[1].message = "array length must be greater than 0"
            /\ result.errors[1].start = tokens[5].start
            /\ \A i \in 1..Len(result.stmts) : result.stmts[i].node # "VarDef"

\* the declaration with the union of three types has been parsed to the end
C22_Witness ==
    /\ tokens = Lex(Scenarios.union_type)
    /\ pc = "done"
    /\ calls = 1
    /\ result.errors = <<>>
    /\ Len(result.stmts) = 1
    /\ result.stmts[1].var_decl.type_.kind = "Union"
    /\ Len(result.stmts[1].var_decl.type_.elems) = 3


\* C23: the generic-parameter scope is empty whenever the parse of a top-level
\* statement begins, also after a body-less template declaration or a failed one; so
\* after the template `fn f<T>(T a): T` the parameter type T of the sibling
\* `fn g(T b) {}` is an Alias and not a Param.
C23_GenericScopeCleared ==
    /\ pc = "loop" => type_params_table = {}
    /\ tokens = Lex(Scenarios.template_then_fn) =>
        /\ pc \notin {"panic", "diverge"}
        /\ (pc = "done" /\ calls = 1) =>
            /\ result.errors = <<>>
            /\ Len(result.stmts) = 2
            /\ result.stmts[1].node = "FnDef"
            /\ result.stmts[1].fndef.is_tpl
            /\ result.stmts[1].fndef.params[1].type_.kind = "Param"
            /\ result.stmts[2].node = "FnDef"
            /\ result.stmts[2].fndef.symbol_name = "g"
            /\ result.stmts[2].fndef.params[1].type_.kind = "Alias"


\* C24: recovery inside a block stays inside the block. In `if b == 24 { int a }`
\* followed by `int foo = 3` the failed statement `int a` is the only diagnostic, the
\* cursor never passes Eof, and `int foo = 3`, which lies after the closing `}`, is
\* parsed as a top-level statement and not as a statement of the if-body.
C24_RecoveryStaysInBlock ==
    tokens = Lex(Scenarios.block_must_hits_close) =>
        /\ pc \notin {"panic", "diverge"}
        /\ current < Len(tokens)
        /\ Len(errors) <= 1
        /\ (pc = "done" /\ calls = 1) =>
            /\ Len(result.errors) = 1
            /\ result.stmts # <<>>
            /\ result.stmts[Len(result.stmts)].node = "VarDef"
            /\ result.stmts[Len(result.stmts)].var_decl.ident = "foo"


\* the brace level synchronize has reached when it looks at token q, having started
\* at token p with brace level `level`: each `{` passed raised it, each `}` lowered it
BraceLevelAt(p, q, level) ==
    level + Cardinality({i \in p..(q - 1) : TokAt(i).token_type = "LeftCurly"})
          - Cardinality({i \in p..(q - 1) : TokAt(i).token_type = "RightCurly"})

\* the statement keywords at which synchronize stops
SyncStopKeywords ==
    {"Fn", "Var", "Return", "If", "For", "Match", "Try", "Catch", "Continue", "Break",
     "Import", "Type"}

\* token q is one of the four kinds of token at which synchronize, started at p, stops
StopsAt(p, q, level) ==
    LET token_type == TokAt(q).token_type IN
    \/ token_type = "Eof"
    \/ /\ BraceLevelAt(p, q, level) = level
       /\ token_type \in {"StmtEof"} \cup SyncStopKeywords \cup BasicTypeTokens
    \/ /\ token_type = "RightCurly"
       /\ BraceLevelAt(p, q, level) - 1 < level

\* the first token from p on at which synchronize stops
FirstStop(p, level) ==
    CHOOSE q \in p..(Len(tokens) - 1) :
        /\ StopsAt(p, q, level)
        /\ \A i \in p..(q - 1) : ~StopsAt(p, i, level)

\* C25: from every position p of the token vector and for the brace levels 0 and 1,
\* synchronize(level) returns without panic with the cursor at the first token from p
\* on that is Eof (not-found, not consumed), a StmtEof at the caller's brace level
\* (found, and the cursor is one past it), a statement keyword or basic-type token at
\* the caller's level (found, not consumed), or a `}` that takes the level below the
\* caller's (not-found, not consumed); tokens inside nested braces do not stop it, and
\* it changes nothing but the cursor.
C25_SynchronizeStops ==
    \A p \in 0..(Len(tokens) - 1) : \A level \in {0, 1} :
        LET s == SyntaxState(p, errors, type_params_table, match_cond, match_subject)
            r == Call("synchronize", s, <<level>>)
            q == FirstStop(p, level)
            token_type == TokAt(q).token_type
        IN  /\ r.st = "ok"
            /\ r.current = IF token_type = "StmtEof" THEN q + 1 ELSE q
            /\ r.val = (token_type \notin {"Eof", "RightCurly"})
            /\ r.errors = errors
            /\ r.type_params_table = type_params_table
            /\ r.match_cond = match_cond
            /\ r.match_subject = match_subject

\* the driver has recovered from a failed statement, and in its token vector there is
\* a place from which synchronize runs over a nested block holding a stop token
C25_Witness ==
    /\ pc = "done"
    /\ calls = 1
    /\ errors # <<>>
    /\ \E p \in 0..(Len(tokens) - 1) :
        LET q == FirstStop(p, 0) IN
        /\ TokAt(q).token_type = "StmtEof"
        /\ \E i \in p..(q - 1) :
            /\ BraceLevelAt(p, i, 0) > 0
            /\ TokAt(i).token_type \in SyncStopKeywords \cup BasicTypeTokens


\* C26: a tentative look-ahead leaves nothing behind but its answer, so a diagnostic is
\* reported once: for the `(`-led statement `(fn() { int a = })()` followed by
\* `int y = 1` the list of diagnostics never holds more than the one diagnostic of the
\* function body, no diagnostic occurs twice, and the call returns that one diagnostic
\* with the two statements.
C26_LookaheadLeavesNoTrace ==
    tokens = Lex(Scenarios.paren_fn_body_error) =>
        /\ pc \notin {"panic", "diverge"}
        /\ Len(errors) <= 1
        /\ \A i, j \in 1..Len(errors) : i # j => errors[i] # errors[j]
        /\ (pc = "done" /\ calls = 1) =>
            /\ Len(result.errors) = 1
            /\ Len(result.stmts) = 2


\* the binary operator each compound assignment token stands for
CompoundOps ==
    [PlusEqual |-> "Add", MinusEqual |-> "Sub", StarEqual |-> "Mul", SlashEqual |-> "Div",
     PercentEqual |-> "Rem", AndEqual |-> "And", OrEqual |-> "Or", XorEqual |-> "Xor",
     LeftShiftEqual |-> "Lshift", RightShiftEqual |-> "Rshift"]

\* C27: for each compound operator op= of += -= *= /= %= &= |= ^= <<= >>= the statement
\* `x op= y + 1` yields, without diagnostic, Assign(x, Binary(op, x, y + 1)) with the
\* matching operator and the target x on both sides; `y = 1` yields Assign(y, 1); and
\* `f() = 1` yields the diagnostic 'call expr cannot assign' at the `=` and no statement.
C27_CompoundAssign ==
    /\ \A tok \in DOMAIN CompoundOps :
        tokens = Lex(Scenarios[tok]) =>
            /\ pc \notin {"panic", "diverge"}
            /\ (pc = "done" /\ calls = 1) =>
                /\ result.errors = <<>>
                /\ Len(result.stmts) = 1
                /\ Shape(result.stmts[1])
                     = <<"Assign", <<"Ident", "x">>,
                         <<"Binary", CompoundOps[tok], <<"Ident", "x">>,
                           <<"Binary", "Add", <<"Ident", "y">>, <<"Literal", "Int", "1">>>>>>>>
                /\ result.stmts[1].right.left = result.stmts[1].left
    /\ tokens = Lex(Scenarios.call_assign) =>
        /\ pc \notin {"panic", "diverge"}
        /\ (pc = "done" /\ calls = 1) =>
            /\ Len(result.errors) = 1
            /\ result.errors[1].message = "call expr cannot assign"
            /\ result.errors[1].start = tokens[4].start
            /\ Len(result.stmts) = 1
            /\ Shape(result.stmts[1]) = <<"Assign", <<"Ident", "y">>, <<"Literal", "Int", "1">>>>

\* `x <<= y + 1` has been parsed to the end into its assignment
C27_Witness ==
    /\ tokens = Lex(Scenarios.LeftShiftEqual)
    /\ pc = "done"
    /\ calls = 1
    /\ result.errors = <<>>
    /\ Len(result.stmts) = 1
    /\ result.stmts[1].node = "Assign"
    /\ result.stmts[1].right.node = "Binary"
    /\ result.stmts[1].right.op = "Lshift"


\* the kinds must is asked for below: the kind of the token under the cursor and
\* three kinds the parser asks for most
MustKinds(p) == {TokAt(p).token_type, "Equal", "RightCurly", "LeftParen"}

\* C28: with the cursor on any token p of the vector (Eof included), must(kind) leaves
\* the cursor exactly one token further in both outcomes and changes nothing else: when
\* token p is of that kind it returns the token, otherwise it returns the error with
\* the start and end of token p and the message "expected '<kind>'", token p being
\* consumed all the same.
C28_MustAdvancesOnce ==
    \A p \in 0..(Len(tokens) - 1) : \A kind \in MustKinds(p) :
        LET s == SyntaxState(p, errors, type_params_table, match_cond, match_subject)
            r == Call("must", s, <<kind>>)
        IN  /\ r.current = p + 1
            /\ r.errors = errors
            /\ r.type_params_table = type_params_table
            /\ r.match_cond = match_cond
            /\ r.match_subject = match_subject
            /\ TokAt(p).token_type = kind => (r.st = "ok" /\ r.val = TokAt(p))
            /\ TokAt(p).token_type # kind =>
                /\ r.st = "err"
                /\ r.err = SyntaxError(TokAt(p).start, TokAt(p).end, "expected", kind)

\* a failed must has been reported by a parser() call that returned, and the token
\* the diagnostic points at is not of the expected kind
C28_Witness ==
    /\ pc = "done"
    /\ calls = 1
    /\ \E i \in 1..Len(result.errors) : \E p \in 0..(Len(tokens) - 1) :
        /\ result.errors[i].message = "expected"
        /\ result.errors[i].start = TokAt(p).start
        /\ TokAt(p).token_type # result.errors[i].arg
        /\ Call("must", SyntaxState(p, <<>>, {}, FALSE, FALSE), <<result.errors[i].arg>>).st = "err"


\* C29: parser() can be run again on the same Syntax: when the second call returns,
\* it returns the statement list and the diagnostic list that the first call returned
\* (result still holds what the first call returned until the second one returns).
C29_RerunReturnsSame ==
    [][(calls = 2 /\ pc = "loop" /\ pc' = "done") => result' = result]_vars


\* the token kinds that have a rule of their own in find_rule
RuleTokens ==
    {"LeftParen", "LeftSquare", "LeftCurly", "LessThan", "LeftAngle", "MacroIdent", "Dot",
     "Minus", "Plus", "Not", "Tilde", "And", "Or", "Xor", "LeftShift", "Star", "Slash",
     "OrOr", "AndAnd", "NotEqual", "EqualEqual", "RightShift", "RightAngle", "GreaterEqual",
     "LessEqual", "StringLiteral", "IntLiteral", "FloatLiteral", "True", "False", "Null",
     "As", "Is", "Catch", "Ident"}

\* C30: the operator table is consistent with the Pratt loop: every token kind whose
\* infix precedence is above Null has an infix parser, so parser_precedence_expr never
\* selects a rule without an infix parser and never panics with "invalid infix
\* expression", whatever token follows a complete prefix expression.
C30_RuleTableConsistent ==
    /\ \A token_type \in RuleTokens :
        find_rule(token_type).infix_precedence > PrecNull => find_rule(token_type).infix # "None"
    /\ panic_message # "invalid infix expression"

====
